---- MODULE Spec2Model ----
(***************************************************************************)
(* openapi-codegen: the generation pipeline of Generator.generateFromYaml  *)
(* (parse, type generation, stub generation, write) and the schema         *)
(* resolution and normalization engine it drives.                          *)
(*                                                                         *)
(* A schema node is a function from keyword to value, like the Schema      *)
(* interface: a keyword that is absent is not in the node's DOMAIN.  The   *)
(* `$ref` keyword is spelled ref; a reference is the sequence of its       *)
(* pointer segments, <<"#", "components", "schemas", "Node">> for          *)
(* '#/components/schemas/Node', with the file in front of the '#' as the   *)
(* first segment of an external reference.  A mapping that keeps its       *)
(* declaration order (properties, components.schemas, paths) is a sequence *)
(* of [name, schema] entries.                                              *)
(***************************************************************************)
EXTENDS Integers, Sequences, FiniteSets, TLC

VARIABLES
    env,        \* process.env when the config module was loaded
    config,     \* the Config handed to every Generator
    pc,         \* position inside generateFromYaml: idle, parse, types, stubs, write, done, failed
    doc,        \* the file at yamlFilePath
    spec,       \* parseOpenApiYaml's result
    typesFile,  \* generateTypes' result
    stubFiles,  \* generateStubs' result
    allFiles,   \* [typesFile, ...stubFiles]
    steps,      \* the steps of the current run that have completed
    next,       \* index in allFiles of the file writeGeneratedFiles writes next
    written,    \* paths the current run has written so far
    disk,       \* the output tree: full path -> content
    err,        \* the error generateFromYaml rejected with
    runs,       \* number of finished runs
    returned,   \* what each finished run returned, by document
    nIn,        \* a schema handed to normalize on its own
    nOut,       \* its CanonicalTypeNode
    request,    \* a request handed to a group dispatcher or to the aggregator
    response,   \* the dispatcher's or the aggregator's response
    calls,      \* the enhanceWithAI calls, by operationId
    workerEnv,  \* the Env the worker is deployed with
    clock,      \* Date.now() at the worker, in milliseconds
    rateLimitStore, \* the worker's module-level Map: key -> { count, resetTime }
    served,     \* the last request the worker answered, with its response
    schemaNames, \* schema declarations the type graph builder is to name
    identifiers \* the builder's identifier table

genVars == <<pc, spec, typesFile, stubFiles, allFiles, steps, next, written, err>>
outVars == <<disk, runs, returned>>
normVars == <<nIn, nOut>>
dispatchVars == <<request, response>>
enhanceVars == <<calls>>
workerVars == <<workerEnv, clock, rateLimitStore, served>>
nameVars == <<schemaNames, identifiers>>
sideVars == <<normVars, dispatchVars, enhanceVars, workerVars, nameVars>>
vars == <<env, config, doc, genVars, outVars, sideVars>>

----------------------------------------------------------------------------
(* Bounds *)

\* Runs of generateFromYaml one behaviour holds.
MaxRuns == 2
\* Members of a composition (allOf, oneOf, anyOf) handed to normalize on its own.
MaxMembers == 2
\* Segments of a request path handed to a dispatcher.
MaxSegments == 3
\* Half windows of the rate limit the worker's clock may advance.
MaxTicks == 5
\* Requests of one client the worker counts in one window before the model stops.
MaxCount == 1
\* Nesting depth normalize may reach before the model gives up on it.
MaxDepth == 8
\* Bursts of checkRateLimit calls the worker takes before the model stops.
MaxBursts == 3
\* Schema declarations, and inline schemas, the type graph builder names in one run.
MaxNames == 2
MaxInline == 2

----------------------------------------------------------------------------
(* Small helpers *)

Has(node, key) == key \in DOMAIN node

Range(s) == {s[i] : i \in 1..Len(s)}

Names(entries) == [i \in 1..Len(entries) |-> entries[i].name]

Min(S) == CHOOSE x \in S : \A y \in S : x <= y

\* The entry called name of an ordered mapping, as a sequence of none or one.
Lookup(entries, name) == SelectSeq(entries, LAMBDA e : e.name = name)

RECURSIVE Dedup(_)
\* s without the later occurrences of a value, order kept.
Dedup(s) ==
    IF s = <<>> THEN <<>>
    ELSE LET front == Dedup(SubSeq(s, 1, Len(s) - 1))
             last == s[Len(s)]
         IN IF last \in Range(front) THEN front ELSE Append(front, last)

RECURSIVE Flatten(_)
Flatten(ss) == IF ss = <<>> THEN <<>> ELSE Head(ss) \o Flatten(Tail(ss))

----------------------------------------------------------------------------
(* Strings, character by character *)

LowerLetters == "abcdefghijklmnopqrstuvwxyz"
UpperLetters == "ABCDEFGHIJKLMNOPQRSTUVWXYZ"
DigitChars == "0123456789"

\* string.charAt(i - 1)
Char(string, i) == SubSeq(string, i, i)

CharsOf(string) == {Char(string, i) : i \in 1..Len(string)}

RECURSIVE IndexFrom(_, _, _)
\* string.indexOf(c, i - 1) + 1
IndexFrom(string, c, i) ==
    IF i > Len(string) THEN 0
    ELSE IF Char(string, i) = c THEN i
    ELSE IndexFrom(string, c, i + 1)

\* Index of the first occurrence of the character c in string, 0 when absent.
IndexOf(string, c) == IndexFrom(string, c, 1)

\* The character that stands in to where c stands in from; c itself when it
\* is not in from.
MapChar(c, from, to) ==
    LET i == IndexOf(from, c)
    IN IF i = 0 THEN c ELSE Char(to, i)

RECURSIVE toUpperCase(_)
toUpperCase(string) ==
    IF string = "" THEN ""
    ELSE MapChar(Char(string, 1), LowerLetters, UpperLetters) \o toUpperCase(Tail(string))

RECURSIVE toLowerCase(_)
toLowerCase(string) ==
    IF string = "" THEN ""
    ELSE MapChar(Char(string, 1), UpperLetters, LowerLetters) \o toLowerCase(Tail(string))

RECURSIVE split(_, _)
\* string.split(separator), for a separator of one character.
split(string, separator) ==
    LET i == IndexOf(string, separator)
    IN IF i = 0 THEN <<string>>
       ELSE <<SubSeq(string, 1, i - 1)>>
            \o split(SubSeq(string, i + 1, Len(string)), separator)

RECURSIVE join(_)
\* words.join('')
join(words) == IF words = <<>> THEN "" ELSE Head(words) \o join(Tail(words))

RECURSIVE ReplaceOthers(_, _, _)
\* string.replace(/[^keep]/g, with): every character that is not in keep
\* becomes with.
ReplaceOthers(string, keep, with) ==
    IF string = "" THEN ""
    ELSE (IF IndexOf(keep, Char(string, 1)) = 0 THEN with ELSE Char(string, 1))
         \o ReplaceOthers(Tail(string), keep, with)

Alphanumerics == LowerLetters \o UpperLetters \o DigitChars

\* word.charAt(0).toUpperCase() + word.slice(1).toLowerCase()
Capitalized(word) ==
    IF word = "" THEN ""
    ELSE toUpperCase(Char(word, 1)) \o toLowerCase(Tail(word))

toPascalCase(string) ==
    LET words == split(ReplaceOthers(string, Alphanumerics, "_"), "_")
    IN join([i \in 1..Len(words) |-> Capitalized(words[i])])

sanitizeIdentifier(name) ==
    LET clean == ReplaceOthers(name, Alphanumerics \o "_", "_")
        led == IF clean # "" /\ IndexOf(DigitChars, Char(clean, 1)) # 0
               THEN "_" \o clean ELSE clean
    IN IF led = "" THEN "_empty" ELSE led

\* string.startsWith(prefix)
startsWith(string, prefix) ==
    Len(string) >= Len(prefix) /\ SubSeq(string, 1, Len(prefix)) = prefix

\* The value of a decimal digit.
DigitValue(c) == IndexOf(DigitChars, c) - 1

RECURSIVE LeadingDigits(_)
LeadingDigits(string) ==
    IF string # "" /\ IndexOf(DigitChars, Char(string, 1)) # 0
    THEN Char(string, 1) \o LeadingDigits(Tail(string))
    ELSE ""

RECURSIVE DecimalValue(_)
DecimalValue(digits) ==
    IF digits = "" THEN 0
    ELSE 10 * DecimalValue(SubSeq(digits, 1, Len(digits) - 1))
         + DigitValue(Char(digits, Len(digits)))

\* parseInt(string) for an unsigned string: the number its leading digits
\* spell, as <<n>>, or <<>> for NaN when it has none.
parseInt(string) ==
    LET digits == LeadingDigits(string)
    IN IF digits = "" THEN <<>> ELSE <<DecimalValue(digits)>>

----------------------------------------------------------------------------
(* CanonicalTypeNode: the normalized shape of a schema (spec 3) *)

Primitive(kind, format) == [k |-> "Primitive", kind |-> kind, format |-> format]

\* fields: <<[name, type, required]>> in declaration order; open: the open map
\* trailer, a sequence of none or one CanonicalTypeNode.
ObjectType(fields, open) == [k |-> "Object", fields |-> fields, open |-> open]

ArrayType(element) == [k |-> "Array", element |-> element]

UnionType(variants, discriminator) ==
    [k |-> "Union", variants |-> variants,
     discriminated |-> discriminator # <<>>, discriminator |-> discriminator]

EnumType(values) == [k |-> "Enum", values |-> values]

\* to: the identity (the reference) of the NamedType referred to.
ReferenceHandle(to) == [k |-> "Ref", to |-> to]

\* Mutant: a schema of no recognized shape is an error.
UnknownType_Raises == [k |-> "Failure", error |-> "UnrecognizedSchema", detail |-> <<>>]

UnknownType == [k |-> "Unknown"]

\* A fatal error of the taxonomy (spec 7), with what it is reported with.
Failure(error, detail) == [k |-> "Failure", error |-> error, detail |-> detail]

\* The model gave up at MaxDepth: normalization did not end within the bound.
Diverged == [k |-> "Diverged"]

IsFatal(t) == t.k \in {"Failure", "Diverged"}

\* The first fatal result among ts, as a sequence of none or one.
FirstFatal(ts) ==
    LET bad == {i \in 1..Len(ts) : IsFatal(ts[i])}
    IN IF bad = {} THEN <<>> ELSE <<ts[Min(bad)]>>

----------------------------------------------------------------------------
(* 4.1 Reference Resolver *)

SchemaRef(name) == <<"#", "components", "schemas", name>>

\* The mapping of one section of components; empty when the document has none.
Section(root, section) ==
    IF Has(root, "components") /\ Has(root.components, section)
    THEN root.components[section]
    ELSE <<>>

\* resolve(root, ref): only pointers into this document's components/schemas and
\* components/securitySchemes are followed; a segment that is missing is a
\* BrokenReference, a reference into another file an UnsupportedReference.
resolve(root, ref) ==
    IF ref = <<>> \/ Head(ref) # "#"
    THEN Failure("UnsupportedReference", ref)
    ELSE IF Len(ref) # 4 \/ ref[2] # "components"
            \/ ref[3] \notin {"schemas", "securitySchemes"}
    THEN Failure("BrokenReference", ref)
    ELSE LET hit == Lookup(Section(root, ref[3]), ref[4])
         IN IF hit = <<>>
            THEN Failure("BrokenReference", ref)
            ELSE [k |-> "Resolved", node |-> hit[1].schema, path |-> ref]

\* Mutant: no reference is taken to close a cycle.
ClosesCycle_Never(ref, visiting) == FALSE

\* A reference that is already in the visiting-set of the current resolution
\* chain closes a cycle.
ClosesCycle(ref, visiting) == ref \in visiting

----------------------------------------------------------------------------
(* 4.2 Schema Normalizer *)

PrimitiveKinds == {"string", "number", "integer", "boolean", "null"}

\* Mutant: any enum-typed field is taken for a discriminator.
IsSingleValuedEnum_AnyEnum(t) == t.k = "Enum"

IsSingleValuedEnum(t) == t.k = "Enum" /\ Len(t.values) = 1

FieldOf(object, name) == Lookup(object.fields, name)

\* The names of the fields fit to discriminate variants: every variant is an object
\* with a field of that name whose type is a single-valued enum.  In the order of
\* the first variant's fields.
Discriminators(variants) ==
    IF variants = <<>> \/ \E i \in 1..Len(variants) : variants[i].k # "Object"
    THEN <<>>
    ELSE LET fit(n) == \A i \in 1..Len(variants) :
                          /\ FieldOf(variants[i], n) # <<>>
                          /\ IsSingleValuedEnum(FieldOf(variants[i], n)[1].type)
         IN SelectSeq(Names(variants[1].fields), fit)

\* The discriminator recorded on the union: the first fit field, if any.
Discriminator(variants) ==
    IF Discriminators(variants) = <<>> THEN <<>> ELSE <<Head(Discriminators(variants))>>

\* Mutant: a field is required only when every member declaring it requires it.
MergeRequired_All(a, b) == a /\ b

\* A field is required in the merged type when a member requires it.
MergeRequired(a, b) == a \/ b

RECURSIVE MergeFields(_, _)
\* Fold the fields more into the merge acc = [ok, fields, field]: a name that is
\* new is appended, a name that is known must have the identical resolved type.
MergeFields(acc, more) ==
    IF ~acc.ok \/ more = <<>> THEN acc
    ELSE LET f == Head(more)
             at == {i \in 1..Len(acc.fields) : acc.fields[i].name = f.name}
         IN IF at = {}
            THEN MergeFields([acc EXCEPT !.fields = Append(@, f)], Tail(more))
            ELSE LET i == Min(at)
                 IN IF acc.fields[i].type # f.type
                    THEN [ok |-> FALSE, fields |-> <<>>, field |-> f.name]
                    ELSE MergeFields(
                             [acc EXCEPT !.fields[i].required = MergeRequired(@, f.required)],
                             Tail(more))

\* allOf over normalized members.
MergeAllOf(members) ==
    IF FirstFatal(members) # <<>> THEN FirstFatal(members)[1]
    ELSE IF \E i \in 1..Len(members) : members[i].k # "Object"
    THEN Failure("UnsupportedComposition", <<>>)
    ELSE LET all == Flatten([i \in 1..Len(members) |-> members[i].fields])
             opens == Flatten([i \in 1..Len(members) |-> members[i].open])
             m == MergeFields([ok |-> TRUE, fields |-> <<>>, field |-> ""], all)
         IN IF m.ok
            THEN ObjectType(m.fields, IF opens = <<>> THEN <<>> ELSE <<Head(opens)>>)
            ELSE Failure("IncompatibleMerge", <<m.field>>)

RECURSIVE normalize(_, _, _, _)
\* normalize(node) within the document root, with the visiting-set of the current
\* resolution chain; depth counts the nesting for the model's bound only.  The
\* rules in their order of precedence.
normalize(root, node, visiting, depth) ==
    LET sub(n) == normalize(root, n, visiting, depth + 1)
        each(ns) == [i \in 1..Len(ns) |-> sub(ns[i])]
    IN
    IF depth > MaxDepth THEN Diverged
    \* 1. $ref
    ELSE IF Has(node, "ref") THEN
        LET r == resolve(root, node.ref)
        IN IF r.k = "Failure" THEN r
           ELSE IF ClosesCycle(node.ref, visiting) THEN ReferenceHandle(node.ref)
           ELSE normalize(root, r.node, visiting \cup {node.ref}, depth + 1)
    \* 2. allOf
    ELSE IF Has(node, "allOf") THEN MergeAllOf(each(node.allOf))
    \* 3. oneOf / anyOf
    ELSE IF Has(node, "oneOf") \/ Has(node, "anyOf") THEN
        LET variants == each(IF Has(node, "oneOf") THEN node.oneOf ELSE node.anyOf)
        IN IF FirstFatal(variants) # <<>> THEN FirstFatal(variants)[1]
           ELSE UnionType(variants, Discriminator(variants))
    \* 4. enum
    ELSE IF Has(node, "enum") THEN EnumType(Dedup(node.enum))
    \* 5. array / items
    ELSE IF Has(node, "items") \/ (Has(node, "type") /\ node.type = "array") THEN
        IF ~Has(node, "items") THEN ArrayType(UnknownType)
        ELSE LET e == sub(node.items)
             IN IF IsFatal(e) THEN e ELSE ArrayType(e)
    \* 6. object / properties
    ELSE IF Has(node, "properties") \/ (Has(node, "type") /\ node.type = "object") THEN
        LET props == IF Has(node, "properties") THEN node.properties ELSE <<>>
            req == IF Has(node, "required") THEN Range(node.required) ELSE {}
            types == each([i \in 1..Len(props) |-> props[i].schema])
            open == IF ~Has(node, "additionalProperties") THEN <<>>
                    ELSE IF node.additionalProperties = [closed |-> TRUE] THEN <<>>
                    ELSE IF node.additionalProperties = [open |-> TRUE] THEN <<UnknownType>>
                    ELSE <<sub(node.additionalProperties)>>
        IN IF FirstFatal(types \o open) # <<>> THEN FirstFatal(types \o open)[1]
           ELSE ObjectType(
                    [i \in 1..Len(props) |->
                        [name |-> props[i].name, type |-> types[i],
                         required |-> props[i].name \in req]],
                    open)
    \* 7. primitive type + format
    ELSE IF Has(node, "type") /\ node.type \in PrimitiveKinds THEN
        Primitive(node.type, IF Has(node, "format") THEN node.format ELSE "")
    \* 8. anything else
    ELSE UnknownType

----------------------------------------------------------------------------
(* 4.3 Type Graph Builder, 4.4 Type Emitter *)

RECURSIVE RefsOf(_)
\* The references written in a schema node, in document order, not followed.
RefsOf(node) ==
    IF Has(node, "ref") THEN <<node.ref>>
    ELSE LET list(key) == IF Has(node, key) THEN node[key] ELSE <<>>
             props == list("properties")
             inner == list("allOf") \o list("oneOf") \o list("anyOf")
                      \o (IF Has(node, "items") THEN <<node.items>> ELSE <<>>)
                      \o [i \in 1..Len(props) |-> props[i].schema]
                      \o (IF Has(node, "additionalProperties")
                             /\ node.additionalProperties \notin
                                    {[closed |-> TRUE], [open |-> TRUE]}
                          THEN <<node.additionalProperties>> ELSE <<>>)
         IN Flatten([i \in 1..Len(inner) |-> RefsOf(inner[i])])

PathsOf(root) == IF Has(root, "paths") THEN root.paths ELSE <<>>

\* Every operation of the document in declaration order, with its path template.
Operations(root) ==
    LET paths == PathsOf(root)
    IN Flatten([i \in 1..Len(paths) |->
           [j \in 1..Len(paths[i].item) |->
               [path |-> paths[i].name,
                method |-> paths[i].item[j].name,
                op |-> paths[i].item[j].op]]])

\* The schemas an operation carries: its request body, then its responses.
OperationSchemas(root) ==
    LET ops == Operations(root)
    IN Flatten([i \in 1..Len(ops) |->
           ops[i].op.requestBody
           \o [j \in 1..Len(ops[i].op.responses) |-> ops[i].op.responses[j].schema]])

\* Mutant: one identity per occurrence of a reference.
NamedKeys_PerOccurrence(root) ==
    LET schemas == Section(root, "schemas")
        declared == [i \in 1..Len(schemas) |-> SchemaRef(schemas[i].name)]
        bodies == [i \in 1..Len(schemas) |-> schemas[i].schema]
        walked == bodies \o OperationSchemas(root)
        met == Flatten([i \in 1..Len(walked) |-> RefsOf(walked[i])])
    IN declared \o SelectSeq(met, LAMBDA r : resolve(root, r).k = "Resolved")

\* The identities that get a NamedType, in construction order: every schema
\* registered under components/schemas, then every other reference met while
\* walking the schemas and the operations that resolves.  One entry each.
NamedKeys(root) ==
    LET schemas == Section(root, "schemas")
        declared == [i \in 1..Len(schemas) |-> SchemaRef(schemas[i].name)]
        bodies == [i \in 1..Len(schemas) |-> schemas[i].schema]
        walked == bodies \o OperationSchemas(root)
        met == Flatten([i \in 1..Len(walked) |-> RefsOf(walked[i])])
    IN Dedup(declared \o SelectSeq(met, LAMBDA r : resolve(root, r).k = "Resolved"))

\* The NamedType of one identity: its node normalized with itself in the
\* visiting-set, so that a reference back to it becomes a ReferenceHandle.
NamedType(root, key) ==
    [key |-> key, name |-> key[4],
     node |-> normalize(root, resolve(root, key).node, {key}, 0)]

\* The type graph of the document, or the first fatal error met.
BuildTypeGraph(root) ==
    LET keys == NamedKeys(root)
        carried == OperationSchemas(root)
        types == [i \in 1..Len(keys) |-> NamedType(root, keys[i])]
        inOps == [i \in 1..Len(carried) |-> normalize(root, carried[i], {}, 0)]
        fatal == FirstFatal([i \in 1..Len(types) |-> types[i].node] \o inOps)
    IN IF fatal # <<>> THEN fatal[1] ELSE [k |-> "Graph", types |-> types]

\* emit(NamedType set): one declaration per NamedType, in construction order.
emit(types) ==
    [path |-> <<"types.ts">>,
     content |-> [k |-> "types", declarations |-> types],
     description |-> "TypeScript type definitions"]

\* generateTypes(spec): the type-declarations artifact, or the fatal error thrown.
generateTypes(root) ==
    LET graph == BuildTypeGraph(root)
    IN IF graph.k = "Graph" THEN [k |-> "File", file |-> emit(graph.types)] ELSE graph

----------------------------------------------------------------------------
(* 4.5 Route Grouper & Stub Emitter *)

\* The grouping key of an operation: its first path segment when there is one and
\* it is not empty, else its first tag.
GroupKey(o) ==
    IF o.path # <<>> /\ o.path[1] # "" THEN o.path[1]
    ELSE IF o.op.tags # <<>> THEN o.op.tags[1]
    ELSE "root"

\* The route groups of the document, by first appearance.
RouteGroups(root) ==
    LET ops == Operations(root)
    IN Dedup([i \in 1..Len(ops) |-> GroupKey(ops[i])])

\* The (method, path template, operationId) entries of one group.
GroupRoutes(root, group) ==
    LET mine == SelectSeq(Operations(root), LAMBDA o : GroupKey(o) = group)
    IN [i \in 1..Len(mine) |->
           [method |-> mine[i].method, path |-> mine[i].path,
            operationId |-> mine[i].op.operationId]]

\* Mutant: every route group's dispatcher goes to the aggregator's file.
GroupWorkerFile_Shared(root, group) ==
    [path |-> <<"worker.ts">>,
     content |-> [k |-> "group", group |-> group, routes |-> GroupRoutes(root, group)],
     description |-> "Worker for the route group"]

\* The dispatch artifact of one route group.
GroupWorkerFile(root, group) ==
    [path |-> <<group, "_worker.ts">>,
     content |-> [k |-> "group", group |-> group, routes |-> GroupRoutes(root, group)],
     description |-> "Worker for the route group"]

\* The aggregator-dispatch artifact: forwards by first path segment.
MainWorkerFile(root) ==
    [path |-> <<"worker.ts">>,
     content |-> [k |-> "aggregator", groups |-> RouteGroups(root)],
     description |-> "Main router worker"]

\* The API client artifact the tool writes beside the workers.
ApiClientFile(root) ==
    [path |-> <<"api-client.ts">>,
     content |-> [k |-> "client",
                  operations |-> LET ops == Operations(root)
                                 IN [i \in 1..Len(ops) |-> ops[i].op.operationId]],
     description |-> "API client with fetch methods"]

\* generateStubs(spec, config)
generateStubs(root, cfg) ==
    LET groups == RouteGroups(root)
    IN <<ApiClientFile(root), MainWorkerFile(root)>>
       \o [i \in 1..Len(groups) |-> GroupWorkerFile(root, groups[i])]

\* The body of an operation the dispatcher runs: the placeholder, a structured
\* "not implemented" response that carries the operationId.
NotImplemented(operationId) ==
    [status |-> 501, message |-> "Not implemented", operation |-> operationId]

\* What a dispatcher answers when nothing matches.
NotFound == [status |-> 404, error |-> "Not Found"]

\* A template segment of the form {param}.
IsParam(segment) ==
    /\ Len(segment) >= 2
    /\ Char(segment, 1) = "{" /\ Char(segment, Len(segment)) = "}"

\* Mutant: a parameter segment accepts the empty value too.
MatchesTemplate_EmptyParam(template, path) ==
    /\ Len(template) = Len(path)
    /\ \A i \in 1..Len(template) : IsParam(template[i]) \/ template[i] = path[i]

\* Exact segment count, equal literal segments, any non-empty value where the
\* template has a parameter.
MatchesTemplate(template, path) ==
    /\ Len(template) = Len(path)
    /\ \A i \in 1..Len(template) :
          IF IsParam(template[i]) THEN path[i] # "" ELSE template[i] = path[i]

\* The dispatch entry point of a group: the first (method, path template) pair
\* of the group that matches the request decides.
dispatch(routes, req) ==
    LET method == toLowerCase(req.method)
        hits == SelectSeq(routes, LAMBDA r :
                    /\ r.method = method
                    /\ MatchesTemplate(r.path, req.path))
    IN IF hits = <<>> THEN NotFound ELSE NotImplemented(hits[1].operationId)

\* The cases of routeRequest's switch, in their order.
RoutePrefixes ==
    <<"assistants", "audio", "batches", "chat", "completions", "embeddings",
      "evals", "files", "fine_tuning", "images", "models", "moderations",
      "organization", "realtime", "responses", "threads", "uploads",
      "vector_stores">>

\* The availableRoutes the default case lists.
availableRoutes ==
    <<"assistants", "audio", "batches", "chat", "completions",
      "embeddings", "evals", "files", "fine_tuning", "images",
      "models", "moderations", "organization", "realtime",
      "responses", "threads", "uploads", "vector_stores">>

\* url.pathname.split("/").filter(Boolean)
pathSegments(pathname) == SelectSeq(split(pathname, "/"), LAMBDA part : part # "")

\* Mutant: the prefix is the text between the first two slashes, empty or not.
routePrefix_Raw(pathname) ==
    LET parts == split(pathname, "/")
    IN IF Len(parts) >= 2 /\ parts[2] # "" THEN parts[2] ELSE "root"

\* pathSegments[0] || "root"
routePrefix(pathname) ==
    LET segments == pathSegments(pathname)
    IN IF segments # <<>> THEN segments[1] ELSE "root"

\* routeRequest(request, env, ctx) of the main worker: the group worker whose
\* fetch is awaited, or the 404 of the default case.
routeRequest(req) ==
    LET prefix == routePrefix(req.pathname)
    IN IF prefix \in Range(RoutePrefixes)
       THEN [k |-> "forward", worker |-> prefix]
       ELSE [k |-> "response", status |-> 404, error |-> "Not Found",
             availableRoutes |-> availableRoutes]

----------------------------------------------------------------------------
(* Configuration *)

\* process.env.NAME || fallback: an unset or empty variable gives the fallback.
OrDefault(e, name, fallback) ==
    IF name \in DOMAIN e /\ e[name] # "" THEN e[name] ELSE fallback

defaultConfig(e) ==
    [apiUrl |-> OrDefault(e, "API_URL", "https://api.openai.com/v1"),
     apiKey |-> OrDefault(e, "API_KEY", "your-api-key-here"),
     outputDir |-> OrDefault(e, "OUTPUT_DIR", "./generated"),
     generateCloudflareWorker |->
         (("GENERATE_CF_WORKER" \in DOMAIN e /\ e["GENERATE_CF_WORKER"] = "true") \/ TRUE)]

Envs ==
    {[PATH |-> "/usr/bin"],
     [PATH |-> "/usr/bin", OUTPUT_DIR |-> "./out", API_KEY |-> "sk-test",
      GENERATE_CF_WORKER |-> "false"]}

----------------------------------------------------------------------------
(* Parser *)

\* What generateFromYaml rejects with when a step throws.
Thrown(error) == [k |-> "Thrown", error |-> error]

\* Mutant: the parsed document is not asked for its openapi field.
parseOpenApiYaml_NoFieldCheck(file) ==
    IF ~file.readable
    THEN Thrown(<<"Failed to parse OpenAPI YAML file", "ENOENT">>)
    ELSE IF ~file.wellFormed
    THEN Thrown(<<"Failed to parse OpenAPI YAML file", "YAMLException">>)
    ELSE IF file.data = <<>>
    THEN Thrown(<<"Failed to parse OpenAPI YAML file",
                  "Invalid OpenAPI YAML file: Missing required fields.">>)
    ELSE [k |-> "Spec", spec |-> file.data[1]]

\* parseOpenApiYaml(filePath) on the file found there: [readable, wellFormed,
\* data], data being what yaml.load returns as a sequence of none (undefined,
\* null) or one document.
parseOpenApiYaml(file) ==
    IF ~file.readable
    THEN Thrown(<<"Failed to parse OpenAPI YAML file", "ENOENT">>)
    ELSE IF ~file.wellFormed
    THEN Thrown(<<"Failed to parse OpenAPI YAML file", "YAMLException">>)
    ELSE IF file.data = <<>> \/ ~Has(file.data[1], "openapi") \/ file.data[1].openapi = ""
    THEN Thrown(<<"Failed to parse OpenAPI YAML file",
                  "Invalid OpenAPI YAML file: Missing required fields.">>)
    ELSE [k |-> "Spec", spec |-> file.data[1]]

----------------------------------------------------------------------------
(* The documents the runs are given *)

Str == [type |-> "string"]
Num == [type |-> "number"]
Ref(name) == [ref |-> SchemaRef(name)]
P(name, schema) == [name |-> name, schema |-> schema]
Obj(props, required) == [type |-> "object", properties |-> props, required |-> required]
Arr(items) == [type |-> "array", items |-> items]
Enum(values) == [type |-> "string", enum |-> values]

Info == [title |-> "API", version |-> "1.0.0"]

Op(id, tags, body, responses) ==
    [operationId |-> id, tags |-> tags, requestBody |-> body, responses |-> responses]

\* One method of a path item.
M(method, op) == [name |-> method, op |-> op]

Route(template, item) == [name |-> template, item |-> item]

Document(paths, schemas) ==
    [openapi |-> "3.0.0", info |-> Info, paths |-> paths,
     components |-> [schemas |-> schemas]]

File(id, data) == [id |-> id, readable |-> TRUE, wellFormed |-> TRUE, data |-> data]

ChatPaths(schema) ==
    <<Route(<<"chat", "completions">>,
            <<M("post", Op("createChatCompletion", <<"Chat">>, <<schema>>,
                           <<P("200", schema)>>))>>),
      Route(<<"audio", "speech">>,
            <<M("post", Op("createSpeech", <<"Audio">>, <<>>, <<P("200", Str)>>))>>),
      Route(<<"chat", "completions", "{id}">>,
            <<M("get", Op("getChatCompletion", <<"Chat">>, <<>>, <<P("200", schema)>>)),
              M("delete", Op("deleteChatCompletion", <<"Chat">>, <<>>, <<>>))>>)>>

TreeSchemas ==
    <<P("Node", Obj(<<P("value", Str), P("children", Arr(Ref("Node")))>>, <<"value">>))>>

MutualSchemas ==
    <<P("A", Obj(<<P("b", Ref("B")), P("again", Ref("B"))>>, <<"b">>)),
      P("B", Obj(<<P("a", Ref("A"))>>, <<>>))>>

AllOfSchemas ==
    <<P("A", Obj(<<P("x", Str)>>, <<"x">>)),
      P("B", Obj(<<P("y", Num), P("x", Str)>>, <<>>)),
      P("C", [allOf |-> <<Ref("A"), Ref("B")>>])>>

ConflictSchemas ==
    <<P("A", Obj(<<P("x", Str)>>, <<"x">>)),
      P("B", Obj(<<P("x", Num)>>, <<>>)),
      P("C", [allOf |-> <<Ref("A"), Ref("B")>>])>>

NonObjectSchemas ==
    <<P("A", Obj(<<P("x", Str)>>, <<"x">>)),
      P("C", [allOf |-> <<Ref("A"), Str>>])>>

UnionSchemas ==
    <<P("Cat", Obj(<<P("kind", Enum(<<"cat", "cat">>)), P("lives", Num)>>, <<"kind">>)),
      P("Dog", Obj(<<P("kind", Enum(<<"dog">>)), P("breed", Str)>>, <<"kind">>)),
      P("Pet", [oneOf |-> <<Ref("Cat"), Ref("Dog")>>]),
      P("Loose", [anyOf |-> <<Str, Ref("Dog")>>]),
      P("Size", Enum(<<"s", "m", "s">>)),
      P("Bag", [type |-> "array"]),
      P("Opaque", [description |-> "anything"]),
      P("Open", [type |-> "object", additionalProperties |-> Num])>>

\* Paths whose groups are named like the other artifacts, differ in case only, or
\* come from a tag.
NamesakePaths ==
    <<Route(<<"worker", "x">>, <<M("get", Op("getWorker", <<>>, <<>>, <<P("200", Str)>>))>>),
      Route(<<"types">>, <<M("get", Op("listTypes", <<>>, <<>>, <<P("200", Str)>>))>>),
      Route(<<"api-client">>, <<M("post", Op("createClient", <<>>, <<>>, <<>>))>>),
      Route(<<"Worker">>, <<M("get", Op("getUpper", <<>>, <<>>, <<>>))>>),
      Route(<<>>, <<M("get", Op("getRoot", <<"worker">>, <<>>, <<>>)),
                    M("post", Op("postRoot", <<>>, <<>>, <<>>))>>)>>

Files ==
    {File("namesakes", <<Document(NamesakePaths, <<>>)>>),
     [id |-> "unreadable", readable |-> FALSE, wellFormed |-> TRUE, data |-> <<>>],
     [id |-> "syntax", readable |-> TRUE, wellFormed |-> FALSE, data |-> <<>>],
     File("empty", <<>>),
     File("noOpenapi", <<[info |-> Info, paths |-> <<>>]>>),
     File("blankOpenapi", <<[openapi |-> "", info |-> Info, paths |-> <<>>]>>),
     File("minimal", <<[openapi |-> "3.0.0", info |-> Info]>>),
     File("tree", <<Document(ChatPaths(Ref("Node")), TreeSchemas)>>),
     File("mutual", <<Document(ChatPaths(Ref("B")), MutualSchemas)>>),
     File("allOf", <<Document(ChatPaths(Ref("C")), AllOfSchemas)>>),
     File("conflict", <<Document(ChatPaths(Str), ConflictSchemas)>>),
     File("nonObject", <<Document(ChatPaths(Str), NonObjectSchemas)>>),
     File("union", <<Document(ChatPaths(Arr(Ref("Pet"))), UnionSchemas)>>),
     File("missing", <<Document(ChatPaths(Ref("Missing")), TreeSchemas)>>),
     File("missingInSchema",
          <<Document(<<>>, <<P("Holder", Obj(<<P("m", Ref("Missing"))>>, <<>>))>>)>>),
     File("external",
          <<Document(ChatPaths([ref |-> <<"other.yaml#", "components", "schemas", "X">>]),
                     TreeSchemas)>>),
     File("tagged",
          <<[openapi |-> "3.0.0", info |-> Info,
             paths |-> <<Route(<<>>,
                               <<M("get", Op("getRoot", <<"Misc">>, <<>>,
                                             <<P("200", [ref |-> <<"#", "components",
                                                 "securitySchemes", "ApiKey">>])>>))>>)>>,
             components |-> [securitySchemes |->
                                <<P("ApiKey", [type |-> "apiKey", name |-> "X-Key"])>>]]>>)}

----------------------------------------------------------------------------
(* Generator.generateFromYaml and writeGeneratedFiles *)

NoFile == [path |-> <<>>, content |-> [k |-> "none"], description |-> ""]
NoSpec == [k |-> "none"]
NoError == [k |-> "none"]

\* const fullPath = `${outputDir}/${file.path}`
FullPath(outputDir, file) == <<outputDir>> \o file.path

\* Mutant: the files are written right after the types are generated, before
\* the stubs are.
AfterStep_WriteEarly(step) ==
    CASE step = "parse" -> "types"
      [] step = "types" -> "mkdir"
      [] step = "stubs" -> "mkdir"
      [] step = "mkdir" -> "write"
      [] step = "write" -> "done"

\* The order of the statements of generateFromYaml's try block: the step that
\* follows a completed step.
AfterStep(step) ==
    CASE step = "parse" -> "types"
      [] step = "types" -> "stubs"
      [] step = "stubs" -> "mkdir"
      [] step = "mkdir" -> "write"
      [] step = "write" -> "done"

\* Mutant: only the files that are not in the output tree yet are kept.
CombineFiles_SkipExisting(types, stubs) ==
    SelectSeq(<<types>> \o stubs,
              LAMBDA f : \A e \in disk : e.path # FullPath(config.outputDir, f))

\* Mutant: the types artifact is put last.
CombineFiles_TypesLast(types, stubs) == stubs \o <<types>>

\* const allFiles = [typesFile, ...stubFiles]
CombineFiles(types, stubs) == <<types>> \o stubs

\* Mutant: the catch block logs the error and does not throw it again.
Rethrow_Swallow(error) == [pc |-> "done", err |-> error]

\* catch (error) { console.error(...); throw error; }: the run rejects with the
\* error it caught.
Rethrow(error) == [pc |-> "failed", err |-> error]

\* fs.writeFile: the file at path now holds content.
WriteTo(d, path, content) ==
    {e \in d : e.path # path} \cup {[path |-> path, content |-> content]}

Idle ==
    /\ pc = "idle" /\ spec = NoSpec
    /\ typesFile = NoFile /\ stubFiles = <<>> /\ allFiles = <<>>
    /\ steps = {} /\ next = 1 /\ written = {} /\ err = NoError

\* Nothing handed to normalize, no dispatcher, enhancement or worker at work.
IdleNorm == nIn = NoSpec /\ nOut = NoSpec
IdleDispatch == request = NoSpec /\ response = NoSpec
IdleEnhance == calls = <<>>
IdleWorker == workerEnv = NoSpec /\ clock = 0 /\ rateLimitStore = {} /\ served = <<>>
IdleNames == schemaNames = <<>> /\ identifiers = <<>>

Init ==
    /\ env \in Envs
    /\ config = defaultConfig(env)
    /\ doc \in Files
    /\ Idle
    /\ disk = {} /\ runs = 0 /\ returned = <<>>
    /\ IdleNorm /\ IdleDispatch /\ IdleEnhance /\ IdleWorker /\ IdleNames

\* generator.generateFromYaml(yamlFilePath) is called, on this Generator or on
\* a new one: a Generator holds the shared config and nothing else.
Start ==
    /\ pc = "idle" /\ runs < MaxRuns
    /\ pc' = "parse"
    /\ UNCHANGED <<spec, typesFile, stubFiles, allFiles, steps, next, written, err>>
    /\ UNCHANGED <<env, config, doc, outVars, sideVars>>

Fail(error) ==
    /\ pc' = Rethrow(error).pc
    /\ err' = Rethrow(error).err

\* const spec = parseOpenApiYaml(yamlFilePath)
Parse ==
    /\ pc = "parse"
    /\ parseOpenApiYaml(doc).k = "Spec"
    /\ spec' = parseOpenApiYaml(doc).spec
    /\ steps' = steps \cup {"parse"}
    /\ pc' = AfterStep("parse")
    /\ UNCHANGED <<typesFile, stubFiles, allFiles, next, written, err>>
    /\ UNCHANGED <<env, config, doc, outVars, sideVars>>

ParseThrows ==
    /\ pc = "parse"
    /\ parseOpenApiYaml(doc).k = "Thrown"
    /\ Fail(parseOpenApiYaml(doc))
    /\ UNCHANGED <<spec, typesFile, stubFiles, allFiles, steps, next, written>>
    /\ UNCHANGED <<env, config, doc, outVars, sideVars>>

\* const typesFile = generateTypes(spec)
GenerateTypes ==
    /\ pc = "types"
    /\ generateTypes(spec).k = "File"
    /\ typesFile' = generateTypes(spec).file
    /\ steps' = steps \cup {"types"}
    /\ pc' = AfterStep("types")
    /\ UNCHANGED <<spec, stubFiles, allFiles, next, written, err>>
    /\ UNCHANGED <<env, config, doc, outVars, sideVars>>

GenerateTypesThrows ==
    /\ pc = "types"
    /\ generateTypes(spec).k # "File"
    /\ Fail(generateTypes(spec))
    /\ UNCHANGED <<spec, typesFile, stubFiles, allFiles, steps, next, written>>
    /\ UNCHANGED <<env, config, doc, outVars, sideVars>>

\* const stubFiles = generateStubs(spec, this.config)
GenerateStubs ==
    /\ pc = "stubs"
    /\ stubFiles' = generateStubs(spec, config)
    /\ steps' = steps \cup {"stubs"}
    /\ pc' = AfterStep("stubs")
    /\ UNCHANGED <<spec, typesFile, allFiles, next, written, err>>
    /\ UNCHANGED <<env, config, doc, outVars, sideVars>>

\* allFiles is built and writeGeneratedFiles is entered: ensureDirectoryExists.
BeginWrite ==
    /\ pc = "mkdir"
    /\ allFiles' = CombineFiles(typesFile, stubFiles)
    /\ next' = 1
    /\ pc' = AfterStep("mkdir")
    /\ UNCHANGED <<spec, typesFile, stubFiles, steps, written, err>>
    /\ UNCHANGED <<env, config, doc, outVars, sideVars>>

\* fs.mkdir of the output directory fails.
BeginWriteThrows ==
    /\ pc = "mkdir"
    /\ allFiles' = CombineFiles(typesFile, stubFiles)
    /\ Fail(Thrown(<<"Error creating directory at", config.outputDir>>))
    /\ UNCHANGED <<spec, typesFile, stubFiles, steps, next, written>>
    /\ UNCHANGED <<env, config, doc, outVars, sideVars>>

\* One turn of the loop of writeGeneratedFiles: await writeFile(fullPath, content).
WriteFile ==
    /\ pc = "write" /\ next <= Len(allFiles)
    /\ disk' = WriteTo(disk, FullPath(config.outputDir, allFiles[next]),
                       allFiles[next].content)
    /\ written' = written \cup {allFiles[next].path}
    /\ next' = next + 1
    /\ UNCHANGED <<pc, spec, typesFile, stubFiles, allFiles, steps, err>>
    /\ UNCHANGED <<env, config, doc, runs, returned, sideVars>>

\* The write of the next file fails (disk full, no permission).
WriteFileThrows ==
    /\ pc = "write" /\ next <= Len(allFiles)
    /\ Fail(Thrown(<<"Error writing file at", FullPath(config.outputDir, allFiles[next])>>))
    /\ UNCHANGED <<spec, typesFile, stubFiles, allFiles, steps, next, written>>
    /\ UNCHANGED <<env, config, doc, outVars, sideVars>>

\* The loop is over: writeGeneratedFiles resolves and allFiles is returned.
FinishWrite ==
    /\ pc = "write" /\ next > Len(allFiles)
    /\ steps' = steps \cup {"write"}
    /\ pc' = AfterStep("write")
    /\ UNCHANGED <<spec, typesFile, stubFiles, allFiles, next, written, err>>
    /\ UNCHANGED <<env, config, doc, outVars, sideVars>>

\* The promise has settled; the caller holds the outcome and the run's locals
\* are gone.
Settle ==
    /\ pc \in {"done", "failed"}
    /\ returned' = Append(returned,
                          [id |-> doc.id, outcome |-> pc,
                           files |-> IF pc = "done" THEN allFiles ELSE <<>>,
                           err |-> err])
    /\ runs' = runs + 1
    /\ pc' = "idle" /\ spec' = NoSpec
    /\ typesFile' = NoFile /\ stubFiles' = <<>> /\ allFiles' = <<>>
    /\ steps' = {} /\ next' = 1 /\ written' = {} /\ err' = NoError
    /\ UNCHANGED <<env, config, doc, disk, sideVars>>

Next ==
    \/ Start
    \/ Parse \/ ParseThrows
    \/ GenerateTypes \/ GenerateTypesThrows
    \/ GenerateStubs
    \/ BeginWrite \/ BeginWriteThrows
    \/ WriteFile \/ WriteFileThrows \/ FinishWrite
    \/ Settle

Spec == Init /\ [][Next]_vars

----------------------------------------------------------------------------
(* normalize on its own, over compositions of small members *)

\* The document the compositions are resolved in.
NormRoot == Document(<<>>, <<P("T", Obj(<<P("y", Num), P("x", Str)>>, <<"y">>))>>)

\* A property as a member may declare it, with whether it is required: none, or
\* one of a few.
XOptions ==
    {<<>>, <<[p |-> P("x", Str), r |-> TRUE]>>, <<[p |-> P("x", Str), r |-> FALSE]>>,
     <<[p |-> P("x", Num), r |-> FALSE]>>}

KindOptions ==
    {<<>>, <<[p |-> P("kind", Enum(<<"a">>)), r |-> TRUE]>>,
     <<[p |-> P("kind", Enum(<<"b", "b">>)), r |-> FALSE]>>,
     <<[p |-> P("kind", Enum(<<"a", "b">>)), r |-> TRUE]>>}

ObjectOf(decls) ==
    Obj([i \in 1..Len(decls) |-> decls[i].p],
        Names([i \in 1..Len(SelectSeq(decls, LAMBDA d : d.r)) |->
                  SelectSeq(decls, LAMBDA d : d.r)[i].p]))

Members ==
    {ObjectOf(x \o kind) : x \in XOptions, kind \in KindOptions}
    \cup {Str, Ref("T"), Ref("Missing")}

MemberLists == UNION {[1..n -> Members] : n \in 1..MaxMembers}

\* Schema nodes with no keyword the normalizer recognizes: annotations only, a
\* type that is none of the known kinds, a format with no type, an empty schema.
OddNodes ==
    {[description |-> "opaque"], [type |-> "file"], [format |-> "binary"],
     [nullable |-> TRUE, example |-> "x"], <<>>}

\* A document declaring such a node by name, beside an object and a recursive
\* object that carries one.
OddRoot(odd) ==
    Document(<<>>, <<P("T", Obj(<<P("y", Num), P("x", Str)>>, <<"y">>)),
                     P("Opaque", odd),
                     P("Node", Obj(<<P("next", Ref("Node")), P("any", odd)>>, <<>>))>>)

\* The places a schema can hold such a node: itself, by reference, as the items
\* of an array, a property, the additionalProperties, a member of a composition.
OddPlaces(odd) ==
    {odd, Ref("Opaque"), Ref("Node"), Arr(odd), Arr(Ref("Opaque")),
     Obj(<<P("x", odd)>>, <<"x">>), Obj(<<P("x", Str), P("z", odd)>>, <<>>),
     [type |-> "object", additionalProperties |-> odd],
     [oneOf |-> <<odd, Str>>], [oneOf |-> <<Ref("T"), Ref("Opaque")>>],
     [anyOf |-> <<odd>>], [anyOf |-> <<Arr(odd), Ref("Node")>>],
     [allOf |-> <<odd>>], [allOf |-> <<Ref("T"), odd>>],
     [allOf |-> <<Ref("T"), Obj(<<P("z", odd)>>, <<>>)>>],
     [allOf |-> <<Ref("Node"), Ref("T")>>]}

OddInputs ==
    UNION {{[root |-> OddRoot(odd), node |-> node] : node \in OddPlaces(odd)} :
              odd \in OddNodes}

NormInputs ==
    {[root |-> NormRoot, node |-> node] :
        node \in {[allOf |-> ms] : ms \in MemberLists}
                 \cup {[oneOf |-> ms] : ms \in MemberLists}
                 \cup {[anyOf |-> ms] : ms \in MemberLists}}
    \cup OddInputs

InitNorm ==
    /\ env = [PATH |-> "/usr/bin"]
    /\ config = defaultConfig(env)
    /\ doc = File("compositions", <<NormRoot>>)
    /\ Idle
    /\ disk = {} /\ runs = 0 /\ returned = <<>>
    /\ nIn \in NormInputs /\ nOut = NoSpec
    /\ IdleDispatch /\ IdleEnhance /\ IdleWorker /\ IdleNames

\* normalize(node) is called on the schema.
Normalize ==
    /\ nIn # NoSpec /\ nOut = NoSpec
    /\ nOut' = normalize(nIn.root, nIn.node, {}, 0)
    /\ UNCHANGED <<env, config, doc, genVars, outVars, nIn>>
    /\ UNCHANGED <<dispatchVars, enhanceVars, workerVars, nameVars>>

NextNorm == Normalize

SpecNorm == InitNorm /\ [][NextNorm]_vars

----------------------------------------------------------------------------
(* The dispatcher of one route group, over small requests *)

\* The document whose group chat the dispatcher serves.
DispatchRoot ==
    Document(ChatPaths(Str)
             \o <<Route(<<"chat", "{thread_id}", "messages">>,
                        <<M("get", Op("listMessages", <<"Chat">>, <<>>, <<>>))>>)>>,
             <<>>)

Methods == {"GET", "POST", "DELETE", "PUT"}

RequestSegments == {"chat", "completions", "messages", "unknown", "42", ""}

\* The request paths, split at "/" behind the leading one.
RequestPaths == UNION {[1..n -> RequestSegments] : n \in 1..MaxSegments}

Requests == {[method |-> m, path |-> p] : m \in Methods, p \in RequestPaths}

InitDispatch ==
    /\ env = [PATH |-> "/usr/bin"]
    /\ config = defaultConfig(env)
    /\ doc = File("dispatch", <<DispatchRoot>>)
    /\ Idle
    /\ disk = {} /\ runs = 0 /\ returned = <<>>
    /\ request \in Requests /\ response = NoSpec
    /\ IdleNorm /\ IdleEnhance /\ IdleWorker /\ IdleNames

\* The group's fetch(request) is called.
Dispatch ==
    /\ request # NoSpec /\ response = NoSpec
    /\ response' = dispatch(GroupRoutes(DispatchRoot, "chat"), request)
    /\ UNCHANGED <<env, config, doc, genVars, outVars, request>>
    /\ UNCHANGED <<normVars, enhanceVars, workerVars, nameVars>>

NextDispatch == Dispatch

SpecDispatch == InitDispatch /\ [][NextDispatch]_vars

----------------------------------------------------------------------------
(* routeRequest of the main worker, over small requests *)

\* Pathnames: one slash or two in front, a first segment that is a group, or
\* none, or no group, and some rest.
RoutePathnames ==
    {("/" \o extra) \o (first \o rest) :
        extra \in {"", "/"},
        first \in Range(RoutePrefixes) \cup {"", "root", "Chat", "unknown-group"},
        rest \in {"", "/", "/completions", "/anything/else"}}

RouteRequests == {[method |-> m, pathname |-> p] : m \in Methods, p \in RoutePathnames}

InitRoute ==
    /\ env = [PATH |-> "/usr/bin"]
    /\ config = defaultConfig(env)
    /\ doc = File("route", <<DispatchRoot>>)
    /\ Idle
    /\ disk = {} /\ runs = 0 /\ returned = <<>>
    /\ request \in RouteRequests /\ response = NoSpec
    /\ IdleNorm /\ IdleEnhance /\ IdleWorker /\ IdleNames

\* routeRequest(request, env, ctx) is called.
RouteRequest ==
    /\ request # NoSpec /\ response = NoSpec
    /\ response' = routeRequest(request)
    /\ UNCHANGED <<env, config, doc, genVars, outVars, request>>
    /\ UNCHANGED <<normVars, enhanceVars, workerVars, nameVars>>

NextRoute == RouteRequest

SpecRoute == InitRoute /\ [][NextRoute]_vars

----------------------------------------------------------------------------
(* Generator.enhanceWithAI, several calls in flight *)

\* generateBasicStub(operationId): the TODO comment, the function and the 501
\* response all carry the operationId.
generateBasicStub(operationId) ==
    [k |-> "stub", todo |-> operationId, function |-> operationId,
     response |-> NotImplemented(operationId)]

\* Mutant: enhanceWithAI has no guard on the key.
HasApiKey_Unguarded(cfg) == TRUE

\* The guard of enhanceWithAI, negated: a key is configured.
HasApiKey(cfg) == cfg.apiKey # "" /\ cfg.apiKey # "your-api-key-here"

\* findOperation(spec, operationId): the first operation with that id, or null.
findOperation(root, operationId) ==
    SelectSeq(Operations(root), LAMBDA o : o.op.operationId = operationId)

buildAIPrompt(root, operationId) ==
    LET found == findOperation(root, operationId)
    IN [operationId |-> operationId,
        method |-> IF found = <<>> THEN "Unknown" ELSE found[1].method,
        path |-> IF found = <<>> THEN <<"Unknown">> ELSE found[1].path]

\* data.choices?.[0]?.message?.content, as none or one value.
ContentOf(data) ==
    IF /\ Has(data, "choices") /\ data.choices # <<>>
       /\ Has(data.choices[1], "message")
       /\ Has(data.choices[1].message, "content")
    THEN <<data.choices[1].message.content>>
    ELSE <<>>

\* The last line of callAIAPI: the content, or a basic stub when there is none
\* or it is empty.
ContentOrStub(data) ==
    IF ContentOf(data) # <<>> /\ ContentOf(data)[1] # ""
    THEN [k |-> "ai", content |-> ContentOf(data)[1]]
    ELSE generateBasicStub("unknown")

\* Mutant: the catch block of enhanceWithAI throws the error again.
Caught_Rethrow(operationId) == [pc |-> "rejected", result |-> <<>>]

\* catch (error) { console.warn(...); return this.generateBasicStub(operationId); }
Caught(operationId) == [pc |-> "resolved", result |-> <<generateBasicStub(operationId)>>]

\* Mutant: a call that ends in the catch block ends every call in flight there.
WithCall_FailTogether(cs, operationId, call) ==
    [o \in DOMAIN cs |->
        IF o = operationId THEN call
        ELSE IF call.result # <<>> /\ call.result[1].k = "stub"
                /\ cs[o].pc \in {"fetch", "json"}
             THEN [cs[o] EXCEPT !.pc = "resolved",
                                !.result = <<generateBasicStub(o)>>]
             ELSE cs[o]]

\* The calls with the call for operationId replaced: a call holds its own
\* locals and nothing else.
WithCall(cs, operationId, call) == [cs EXCEPT ![operationId] = call]

\* What response.json() may give: a body that is no JSON, null, and objects
\* with and without choices[0].message.content.
Bodies ==
    {[k |-> "unparseable"], [k |-> "json", data |-> <<>>],
     [k |-> "json", data |-> <<[choices |-> <<[message |-> [content |-> "code"]]>>]>>],
     [k |-> "json", data |-> <<[choices |-> <<[message |-> [content |-> ""]]>>]>>],
     [k |-> "json", data |-> <<[choices |-> <<[message |-> [role |-> "assistant"]]>>]>>],
     [k |-> "json", data |-> <<[choices |-> <<>>]>>],
     [k |-> "json", data |-> <<[error |-> "overloaded"]>>]}

OperationIds == {"createChatCompletion", "getChatCompletion", "listModels"}

NotCalled == [pc |-> "idle", prompt |-> <<>>, fetch |-> "none", body |-> <<>>, result |-> <<>>]

\* The configurations a Generator may be constructed with.
GeneratorConfigs(e) == {defaultConfig(e), [defaultConfig(e) EXCEPT !.apiKey = ""]}

\* The artifacts of a run on the document that has succeeded.
ProducedFiles(root, cfg) == CombineFiles(generateTypes(root).file, generateStubs(root, cfg))

InitEnhance ==
    /\ env \in Envs
    /\ config \in GeneratorConfigs(env)
    /\ doc = File("dispatch", <<DispatchRoot>>)
    /\ Idle
    /\ disk = {[path |-> FullPath(config.outputDir, f), content |-> f.content] :
                  f \in Range(ProducedFiles(DispatchRoot, config))}
    /\ runs = 1
    /\ returned = <<[id |-> doc.id, outcome |-> "done",
                     files |-> ProducedFiles(DispatchRoot, config), err |-> NoError]>>
    /\ calls = [o \in OperationIds |-> NotCalled]
    /\ IdleNorm /\ IdleDispatch /\ IdleWorker /\ IdleNames

\* enhanceWithAI(spec, operationId) is called: without a key it returns the
\* basic stub at once, with one it builds the prompt and awaits fetch.
EnhanceWithAI(operationId) ==
    /\ calls[operationId].pc = "idle"
    /\ calls' = WithCall(calls, operationId,
          IF ~HasApiKey(config)
          THEN [NotCalled EXCEPT !.pc = "resolved",
                                 !.result = <<generateBasicStub(operationId)>>]
          ELSE [NotCalled EXCEPT !.pc = "fetch", !.fetch = "pending",
                                 !.prompt = <<buildAIPrompt(DispatchRoot, operationId)>>])
    /\ UNCHANGED <<env, config, doc, genVars, outVars>>
    /\ UNCHANGED <<normVars, dispatchVars, workerVars, nameVars>>

\* The fetch of callAIAPI settles: it rejects, or the response is not ok (both
\* end in the catch block of enhanceWithAI), or it is ok and response.json() is
\* awaited.
FetchSettles(operationId, outcome) ==
    /\ calls[operationId].pc = "fetch"
    /\ calls' = WithCall(calls, operationId,
          IF outcome = "ok"
          THEN [calls[operationId] EXCEPT !.pc = "json", !.fetch = outcome]
          ELSE [calls[operationId] EXCEPT !.pc = Caught(operationId).pc,
                                          !.fetch = outcome,
                                          !.result = Caught(operationId).result])
    /\ UNCHANGED <<env, config, doc, genVars, outVars>>
    /\ UNCHANGED <<normVars, dispatchVars, workerVars, nameVars>>

\* response.json() settles: it rejects on a body that is no JSON, reading
\* choices of null throws, and otherwise callAIAPI returns.
JsonSettles(operationId, body) ==
    /\ calls[operationId].pc = "json"
    /\ calls' = WithCall(calls, operationId,
          IF body.k = "unparseable" \/ body.data = <<>>
          THEN [calls[operationId] EXCEPT !.pc = Caught(operationId).pc,
                                          !.body = <<body>>,
                                          !.result = Caught(operationId).result]
          ELSE [calls[operationId] EXCEPT !.pc = "resolved",
                                          !.body = <<body>>,
                                          !.result = <<ContentOrStub(body.data[1])>>])
    /\ UNCHANGED <<env, config, doc, genVars, outVars>>
    /\ UNCHANGED <<normVars, dispatchVars, workerVars, nameVars>>

NextEnhance ==
    \/ \E o \in OperationIds : EnhanceWithAI(o)
    \/ \E o \in OperationIds : \E outcome \in {"rejected", "notOk", "ok"} :
          FetchSettles(o, outcome)
    \/ \E o \in OperationIds : \E body \in Bodies : JsonSettles(o, body)

SpecEnhance == InitEnhance /\ [][NextEnhance]_vars

----------------------------------------------------------------------------
(* One Generator: runs of generateFromYaml beside calls of enhanceWithAI *)

\* The documents the runs are given: one that cannot be read, one whose type
\* generation fails, one that generates.
GeneratorFiles ==
    {f \in Files : f.id \in {"unreadable", "conflict"}}
    \cup {File("dispatch", <<DispatchRoot>>)}

\* The operations enhanceWithAI is called for beside the runs.
EnhancedIds == {"createChatCompletion"}

InitGenerator ==
    /\ env \in Envs
    /\ config \in GeneratorConfigs(env)
    /\ doc \in GeneratorFiles
    /\ Idle
    /\ disk = {} /\ runs = 0 /\ returned = <<>>
    /\ calls = [o \in OperationIds |-> NotCalled]
    /\ IdleNorm /\ IdleDispatch /\ IdleWorker /\ IdleNames

\* The steps of generateFromYaml, and those of enhanceWithAI and callAIAPI, in
\* any order: both are methods of the one Generator and share its config.
NextGenerator ==
    \/ Start
    \/ Parse \/ ParseThrows
    \/ GenerateTypes \/ GenerateTypesThrows
    \/ GenerateStubs
    \/ BeginWrite \/ BeginWriteThrows
    \/ WriteFile \/ WriteFileThrows \/ FinishWrite
    \/ Settle
    \/ \E o \in EnhancedIds : EnhanceWithAI(o)
    \/ \E o \in EnhancedIds : \E outcome \in {"rejected", "notOk", "ok"} :
          FetchSettles(o, outcome)
    \/ \E o \in EnhancedIds : \E body \in Bodies : JsonSettles(o, body)

SpecGenerator == InitGenerator /\ [][NextGenerator]_vars

----------------------------------------------------------------------------
(* The enhanced main worker: fetch with its CORS, health, authentication and *)
(* rate-limit steps in front of routeRequest                                 *)

windowMs == 60 * 1000

\* Math.ceil(a / b) for a >= 0, b > 0
Ceil(a, b) == (a + b - 1) \div b

\* rateLimitStore.get(key), as none or one entry.  The store is the set of its
\* entries [key, count, resetTime], one per key.
StoreGet(store, key) ==
    IF \E e \in store : e.key = key
    THEN <<CHOOSE e \in store : e.key = key>>
    ELSE <<>>

\* rateLimitStore.set(key, { count, resetTime })
StoreSet(store, key, count, resetTime) ==
    {e \in store : e.key # key}
    \cup {[key |-> key, count |-> count, resetTime |-> resetTime]}

\* Mutant: every entry whose window has ended is deleted.
cleanupRateLimit_Eager(store, now) == {e \in store : ~(e.resetTime < now)}

\* cleanupRateLimit(now, windowMs): the entries whose resetTime is before
\* now - windowMs are deleted.
cleanupRateLimit(store, now) == {e \in store : ~(e.resetTime < now - windowMs)}

\* parseInt(env.RATE_LIMIT_PER_MINUTE || '60')
RateLimit(wenv) ==
    parseInt(IF Has(wenv, "RATE_LIMIT_PER_MINUTE") /\ wenv.RATE_LIMIT_PER_MINUTE # ""
             THEN wenv.RATE_LIMIT_PER_MINUTE ELSE "60")

\* checkRateLimit(clientIP, env) at time now: the verdict and the store it
\* leaves.  A comparison with NaN is false.
checkRateLimit(store, clientIP, wenv, now) ==
    LET limit == RateLimit(wenv)
        windowStart == (now \div windowMs) * windowMs
        key == <<clientIP, windowStart>>
        found == StoreGet(store, key)
        current == IF found # <<>> THEN found[1]
                   ELSE [key |-> key, count |-> 0, resetTime |-> windowStart + windowMs]
    IN IF limit # <<>> /\ current.count >= limit[1]
       THEN [allowed |-> FALSE,
             retryAfter |-> <<Ceil(current.resetTime - now, 1000)>>,
             store |-> store]
       ELSE [allowed |-> TRUE, retryAfter |-> <<>>,
             store |-> cleanupRateLimit(
                           StoreSet(store, key, current.count + 1, current.resetTime),
                           now)]

IsHealthCheck(pathname) == pathname = "/health" \/ pathname = "/health/"

\* Mutant: validateAuth lets every request pass.
validateAuth_Open(req, wenv) == [valid |-> TRUE, error |-> ""]

\* validateAuth(request, env)
validateAuth(req, wenv) ==
    IF IsHealthCheck(req.pathname) THEN [valid |-> TRUE, error |-> ""]
    ELSE IF req.authorization = <<>>
         THEN [valid |-> FALSE, error |-> "Authorization header required"]
    ELSE IF ~startsWith(req.authorization[1], "Bearer ")
         THEN [valid |-> FALSE, error |-> "Invalid authorization format"]
    ELSE IF SubSeq(req.authorization[1], 8, Len(req.authorization[1])) = ""
         THEN [valid |-> FALSE, error |-> "Missing API key"]
    ELSE IF ~Has(wenv, "API_KEY") \/ wenv.API_KEY = ""
         THEN [valid |-> FALSE, error |-> "API key not configured"]
    ELSE [valid |-> TRUE, error |-> ""]

\* request.headers.get('CF-Connecting-IP') || 'unknown'
clientIP(req) == IF req.ip # <<>> /\ req.ip[1] # "" THEN req.ip[1] ELSE "unknown"

\* The routes of the group chat.
ChatRoutes == GroupRoutes(DispatchRoot, "chat")

\* The fetch of a group worker the request is forwarded to.  The group chat
\* serves the routes of the chat group; of the other groups no route is known.
GroupWorkerFetch(worker, req) ==
    dispatch(IF worker = "chat" THEN ChatRoutes ELSE <<>>,
             [method |-> req.method, path |-> Tail(split(req.pathname, "/"))])

\* enhanceResponse(response, env, context): the status is kept, headers are added.
enhanceResponse(resp, from) == [status |-> resp.status, from |-> from, body |-> resp]

\* The catch block of fetch.
InternalServerError ==
    [status |-> 500, from |-> "catch", body |-> [error |-> "Internal server error"]]

WorkerEnvs ==
    {[API_KEY |-> "sk-live", RATE_LIMIT_PER_MINUTE |-> "1"],
     [API_KEY |-> "sk-live"],
     [RATE_LIMIT_PER_MINUTE |-> "1"]}

Req(method, pathname, authorization, ip) ==
    [method |-> method, pathname |-> pathname, authorization |-> authorization, ip |-> ip]

\* A request of each kind the steps of fetch tell apart, from a client with a
\* known address and from one without.
WorkerRequests ==
    {Req("OPTIONS", "/chat/completions", <<>>, <<"203.0.113.7">>),
     Req("GET", "/health", <<>>, <<"203.0.113.7">>),
     Req("GET", "/health/", <<"Basic c2s6">>, <<>>),
     Req("POST", "/chat/completions", <<>>, <<"203.0.113.7">>),
     Req("POST", "/chat/completions", <<"Basic c2s6">>, <<"203.0.113.7">>),
     Req("POST", "/chat/completions", <<"Bearer ">>, <<"203.0.113.7">>),
     Req("POST", "/chat/completions", <<"Bearer sk-live">>, <<"203.0.113.7">>),
     Req("POST", "/chat/completions", <<"Bearer sk-live">>, <<>>),
     Req("GET", "/chat/unknown", <<"Bearer sk-live">>, <<"203.0.113.7">>),
     Req("GET", "/unknown-group/anything", <<"Bearer sk-live">>, <<"203.0.113.7">>)}

\* validateAuth, routeRequest and the group worker read the request and the
\* Env alone: what they give, for each Env and request.
Stateless ==
    [wenv \in WorkerEnvs |->
        [req \in WorkerRequests |->
            [authResult |-> validateAuth(req, wenv),
             routed |-> routeRequest(req),
             answer |-> IF routeRequest(req).k = "forward"
                        THEN GroupWorkerFetch(routeRequest(req).worker, req)
                        ELSE routeRequest(req)]]]

\* The request goes through the steps in front of routeRequest and is
\* forwarded to a group worker.
ReachesWorker(store, req, wenv, now) ==
    /\ req.method # "OPTIONS" /\ ~IsHealthCheck(req.pathname)
    /\ Stateless[wenv][req].authResult.valid
    /\ checkRateLimit(store, clientIP(req), wenv, now).allowed
    /\ Stateless[wenv][req].routed.k = "forward"

\* fetch(request, env, ctx) at time now, when nothing throws: the response and
\* the rateLimitStore it leaves.
fetch(store, req, wenv, now) ==
    IF req.method = "OPTIONS"
    THEN [response |-> [status |-> 204, from |-> "handleCors", body |-> <<>>],
          store |-> store]
    ELSE IF IsHealthCheck(req.pathname)
    THEN [response |-> [status |-> 200, from |-> "handleHealthCheck",
                        body |-> [status |-> "healthy", hasApiKey |-> Has(wenv, "API_KEY")]],
          store |-> store]
    ELSE LET authResult == Stateless[wenv][req].authResult IN
    IF ~authResult.valid
    THEN [response |-> [status |-> 401, from |-> "validateAuth",
                        body |-> [error |-> authResult.error]],
          store |-> store]
    ELSE LET limited == checkRateLimit(store, clientIP(req), wenv, now)
             routed == Stateless[wenv][req].routed
         IN IF ~limited.allowed
            THEN [response |-> [status |-> 429, from |-> "checkRateLimit",
                                body |-> [error |-> "Rate limit exceeded",
                                          retryAfter |-> limited.retryAfter]],
                  store |-> limited.store]
            ELSE IF routed.k = "forward"
            THEN [response |-> enhanceResponse(Stateless[wenv][req].answer, routed.worker),
                  store |-> limited.store]
            ELSE [response |-> enhanceResponse(routed, "routeRequest"),
                  store |-> limited.store]

InitWorker ==
    /\ env = [PATH |-> "/usr/bin"]
    /\ config = defaultConfig(env)
    /\ doc = File("dispatch", <<DispatchRoot>>)
    /\ Idle
    /\ disk = {} /\ runs = 0 /\ returned = <<>>
    /\ workerEnv \in WorkerEnvs
    /\ clock = 0 /\ rateLimitStore = {} /\ served = <<>>
    /\ IdleNorm /\ IdleDispatch /\ IdleEnhance /\ IdleNames

\* The worker's fetch handler answers a request.
Fetch(req) ==
    LET out == fetch(rateLimitStore, req, workerEnv, clock)
    IN /\ \A e \in out.store : e.count <= MaxCount
       /\ rateLimitStore' = out.store
       /\ served' = <<[request |-> req, response |-> out.response]>>
    /\ UNCHANGED <<env, config, doc, genVars, outVars, workerEnv, clock>>
    /\ UNCHANGED <<normVars, dispatchVars, enhanceVars, nameVars>>

\* The group worker the request was forwarded to throws: the catch block of
\* fetch answers, after the rate-limit check has counted the request.
FetchRaises(req) ==
    /\ ReachesWorker(rateLimitStore, req, workerEnv, clock)
    /\ LET limited == checkRateLimit(rateLimitStore, clientIP(req), workerEnv, clock)
       IN /\ \A e \in limited.store : e.count <= MaxCount
          /\ rateLimitStore' = limited.store
    /\ served' = <<[request |-> req, response |-> InternalServerError]>>
    /\ UNCHANGED <<env, config, doc, genVars, outVars, workerEnv, clock>>
    /\ UNCHANGED <<normVars, dispatchVars, enhanceVars, nameVars>>

\* A step in front of checkRateLimit throws (new URL, a handler, validateAuth):
\* the catch block of fetch answers and no request has been counted.
FetchRaisesEarly(req) ==
    /\ rateLimitStore' = rateLimitStore
    /\ served' = <<[request |-> req, response |-> InternalServerError]>>
    /\ UNCHANGED <<env, config, doc, genVars, outVars, workerEnv, clock>>
    /\ UNCHANGED <<normVars, dispatchVars, enhanceVars, nameVars>>

\* Time passes: half a window.
Tick ==
    /\ clock < MaxTicks * (windowMs \div 2)
    /\ clock' = clock + windowMs \div 2
    /\ UNCHANGED <<env, config, doc, genVars, outVars, workerEnv, rateLimitStore, served>>
    /\ UNCHANGED <<normVars, dispatchVars, enhanceVars, nameVars>>

NextWorker ==
    \/ \E req \in WorkerRequests : Fetch(req)
    \/ \E req \in WorkerRequests : FetchRaises(req)
    \/ \E req \in WorkerRequests : FetchRaisesEarly(req)
    \/ Tick

SpecWorker == InitWorker /\ [][NextWorker]_vars

----------------------------------------------------------------------------
(* checkRateLimit on its own, called in bursts *)

\* The verdicts of one more call added to the tally of its key: how many calls
\* were allowed, how many denied, whether a call was allowed after a denied
\* one (late), whether a denied call changed the store (loud).
Tallied(tallies, key, verdict, changed) ==
    LET found == {t \in tallies : t.key = key}
        old == IF found = {}
               THEN [key |-> key, allowed |-> 0, denied |-> 0, late |-> FALSE, loud |-> FALSE]
               ELSE CHOOSE t \in found : TRUE
    IN (tallies \ found)
       \cup {IF verdict.allowed
             THEN [old EXCEPT !.allowed = @ + 1, !.late = @ \/ old.denied > 0]
             ELSE [old EXCEPT !.denied = @ + 1, !.loud = @ \/ changed]}

RECURSIVE Burst(_, _, _, _, _, _)
\* n calls of checkRateLimit(clientIP, env) one after the other at time now:
\* the store and the tallies they leave.
Burst(store, tallies, ip, wenv, now, n) ==
    IF n = 0 THEN [store |-> store, tallies |-> tallies]
    ELSE IF n = 1
    THEN LET verdict == checkRateLimit(store, ip, wenv, now)
             key == <<ip, (now \div windowMs) * windowMs>>
         IN [store |-> verdict.store,
             tallies |-> Tallied(tallies, key, verdict, verdict.store # store)]
    ELSE LET first == Burst(store, tallies, ip, wenv, now, n \div 2)
         \* The first half is evaluated to the end before the second begins.
         IN IF Cardinality(first.store) >= 0 /\ Cardinality(first.tallies) >= 0
            THEN Burst(first.store, first.tallies, ip, wenv, now, n - n \div 2)
            ELSE first

\* One request, and one more than the default limit of sixty.
BurstSizes == {1, 61}

ClientIPs == {"203.0.113.7", "unknown"}

\* The Envs of the worker, and one whose limit is no number.
LimitEnvs ==
    WorkerEnvs \cup {[API_KEY |-> "sk-live", RATE_LIMIT_PER_MINUTE |-> "many"]}

InitLimit ==
    /\ env = [PATH |-> "/usr/bin"]
    /\ config = defaultConfig(env)
    /\ doc = File("dispatch", <<DispatchRoot>>)
    /\ Idle
    /\ disk = {} /\ runs = 0 /\ returned = <<>>
    /\ workerEnv \in LimitEnvs
    /\ clock = 0 /\ rateLimitStore = {}
    /\ served = [bursts |-> 0, tallies |-> {}]
    /\ IdleNorm /\ IdleDispatch /\ IdleEnhance /\ IdleNames

\* The client sends n requests and checkRateLimit is called for each.
CheckRateLimit(ip, n) ==
    /\ served.bursts < MaxBursts
    /\ LET out == Burst(rateLimitStore, served.tallies, ip, workerEnv, clock, n)
       IN /\ rateLimitStore' = out.store
          /\ served' = [bursts |-> served.bursts + 1, tallies |-> out.tallies]
    /\ UNCHANGED <<env, config, doc, genVars, outVars, workerEnv, clock>>
    /\ UNCHANGED <<normVars, dispatchVars, enhanceVars, nameVars>>

NextLimit ==
    \/ \E ip \in ClientIPs : \E n \in BurstSizes : CheckRateLimit(ip, n)
    \/ Tick

SpecLimit == InitLimit /\ [][NextLimit]_vars

----------------------------------------------------------------------------
(* The naming of the type graph builder (spec 4.3) *)

\* The identifier derived from a declaration name: case-normalized to the
\* identifier convention of the emitted TypeScript.
IdentifierOf(name) == sanitizeIdentifier(toPascalCase(name))

\* The identifiers the table has given out.
Taken(table) == {table[i].identifier : i \in 1..Len(table)}

\* The name derived for an inline schema, from its operationId and field path.
InlineName(operationId, field) == toPascalCase(operationId) \o toPascalCase(field)

\* base, or base with the first numeric suffix that is free when base is taken.
Suffixed(base, taken) ==
    IF base \notin taken THEN base
    ELSE LET free == {n \in 2..(Cardinality(taken) + 2) : (base \o ToString(n)) \notin taken}
         IN base \o ToString(Min(free))

\* The identity of an inline schema: a key synthesized from its position.
InlineKey(operationId, field) == <<"inline", operationId, field>>

DeclarationNames ==
    {"foo-bar", "foo_bar", "FooBar", "user", "User", "get_user_body", "2fa", "Pet"}

\* The declarations of components/schemas, in declaration order: distinct names.
DeclarationLists ==
    {names \in UNION {[1..n -> DeclarationNames] : n \in 1..MaxNames} :
        \A i, j \in 1..Len(names) : i # j => names[i] # names[j]}

InlinePositions ==
    {InlineKey(operationId, "body") : operationId \in {"get-user", "get_user", "listPets"}}

InitNames ==
    /\ env = [PATH |-> "/usr/bin"]
    /\ config = defaultConfig(env)
    /\ doc = File("compositions", <<NormRoot>>)
    /\ Idle
    /\ disk = {} /\ runs = 0 /\ returned = <<>>
    /\ IdleNorm /\ IdleDispatch /\ IdleEnhance /\ IdleWorker
    /\ schemaNames \in DeclarationLists
    /\ identifiers = <<>>

\* The next schema of components/schemas gets its identifier, from its name alone.
NameDeclared ==
    /\ Len(identifiers) < Len(schemaNames)
    /\ LET name == schemaNames[Len(identifiers) + 1]
       IN identifiers' = Append(identifiers,
                                [key |-> SchemaRef(name), identifier |-> IdentifierOf(name)])
    /\ UNCHANGED <<env, config, doc, genVars, outVars, schemaNames>>
    /\ UNCHANGED <<normVars, dispatchVars, enhanceVars, workerVars>>

\* An inline schema met while walking the operations gets its name, with a
\* numeric suffix when the derived name is taken.
NameInline(key) ==
    /\ Len(identifiers) >= Len(schemaNames)
    /\ Len(identifiers) < Len(schemaNames) + MaxInline
    /\ \A i \in 1..Len(identifiers) : identifiers[i].key # key
    /\ identifiers' =
          Append(identifiers,
                 [key |-> key,
                  identifier |-> Suffixed(InlineName(key[2], key[3]), Taken(identifiers))])
    /\ UNCHANGED <<env, config, doc, genVars, outVars, schemaNames>>
    /\ UNCHANGED <<normVars, dispatchVars, enhanceVars, workerVars>>

NextNames ==
    \/ NameDeclared
    \/ \E key \in InlinePositions : NameInline(key)

SpecNames == InitNames /\ [][NextNames]_vars

----------------------------------------------------------------------------
(* Vocabulary of the properties *)

PathsOfFiles(files) == {files[i].path : i \in 1..Len(files)}

\* How many files of the list have content of kind k.
CountKind(files, k) == Cardinality({i \in 1..Len(files) : files[i].content.k = k})

FinishedRuns(outcome) == {i \in 1..Len(returned) : returned[i].outcome = outcome}

RECURSIVE RefClosure(_, _)
\* refs and every reference met by following the refs that resolve in root.
RefClosure(root, refs) ==
    LET step == refs \cup UNION {Range(RefsOf(resolve(root, r).node)) :
                                    r \in {q \in refs : resolve(root, q).k = "Resolved"}}
    IN IF step = refs THEN refs ELSE RefClosure(root, step)

\* The references reachable from the operations under paths.
RefsFromPaths(root) ==
    RefClosure(root, UNION {Range(RefsOf(OperationSchemas(root)[i])) :
                               i \in 1..Len(OperationSchemas(root))})

\* The references reachable from paths or components.schemas.
ReachableRefs(root) ==
    RefClosure(root,
               RefsFromPaths(root)
               \cup UNION {Range(RefsOf(Section(root, "schemas")[i].schema)) :
                              i \in 1..Len(Section(root, "schemas"))})

RECURSIVE Handles(_)
\* The identities a CanonicalTypeNode refers to by ReferenceHandle.
Handles(t) ==
    CASE t.k = "Ref" -> {t.to}
      [] t.k = "Array" -> Handles(t.element)
      [] t.k = "Union" -> UNION {Handles(t.variants[i]) : i \in 1..Len(t.variants)}
      [] t.k = "Object" ->
            UNION {Handles(t.fields[i].type) : i \in 1..Len(t.fields)}
            \cup UNION {Handles(t.open[i]) : i \in 1..Len(t.open)}
      [] OTHER -> {}

Declarations == typesFile.content.declarations

TypesEmitted == "types" \in steps

----------------------------------------------------------------------------
(* Properties of the generation run *)

\* C1 (as claimed): a run that has failed has written none of its artifacts, and
\* a run that has succeeded has written every one of them.
C1_AllOrNothing ==
    /\ pc = "failed" => written = {}
    /\ pc = "done" => written = PathsOfFiles(allFiles)

C3_ResolveEmitWrite ==
    /\ typesFile # NoFile =>
          /\ {"parse", "types"} \subseteq steps
          /\ [i \in 1..Len(Declarations) |-> Declarations[i].key] = NamedKeys(spec)
          /\ \A i \in 1..Len(Declarations) : ~IsFatal(Declarations[i].node)
    /\ "stubs" \in steps => "types" \in steps
    /\ (pc \in {"write", "done"} \/ written # {}) =>
          /\ {"parse", "types", "stubs"} \subseteq steps
          /\ typesFile # NoFile
          /\ typesFile \in Range(allFiles)
          /\ Range(stubFiles) \subseteq Range(allFiles)
          /\ Len(stubFiles) >= 2

C3_Witness == pc = "write" /\ written # {} /\ Len(Declarations) > 0

\* The route groups of the parsed document.
GroupsOfSpec == {GroupKey(Operations(spec)[i]) : i \in 1..Len(Operations(spec))}

\* One types artifact, first; one aggregator; one dispatch artifact per route group.
ShapeOfWorkers(files) ==
    /\ files # <<>> /\ files[1].content.k = "types"
    /\ CountKind(files, "types") = 1
    /\ CountKind(files, "aggregator") = 1
    /\ \A g \in GroupsOfSpec :
          Cardinality({i \in 1..Len(files) :
              files[i].content.k = "group" /\ files[i].content.group = g}) = 1
    /\ \A i \in 1..Len(files) :
          files[i].content.k = "group" => files[i].content.group \in GroupsOfSpec

C5_ReferenceIntegrity ==
    TypesEmitted =>
        /\ \A r \in ReachableRefs(spec) :
              Cardinality({i \in 1..Len(Declarations) : Declarations[i].key = r}) = 1
        /\ \A i, j \in 1..Len(Declarations) :
              Declarations[i].key = Declarations[j].key => i = j

C5_Witness ==
    /\ TypesEmitted
    /\ Cardinality(ReachableRefs(spec)) >= 2
    /\ \E i \in 1..Len(OperationSchemas(spec)) :
          /\ Has(OperationSchemas(spec)[i], "ref")
          /\ OperationSchemas(spec)[i].ref \in
                 Range(RefsOf(Section(spec, "schemas")[1].schema))

\* The declared schemas that reach themselves through references.
OnCycle(root, key) ==
    key \in RefClosure(root, Range(RefsOf(resolve(root, key).node)))

\* C6: type generation ends within the depth bound whatever the document's
\* references, and the declaration of a schema that reaches itself refers to
\* itself by a ReferenceHandle.
C6_CycleTermination ==
    /\ pc = "types" => generateTypes(spec).k # "Diverged"
    /\ err.k # "Diverged"
    /\ TypesEmitted =>
          \A i \in 1..Len(Declarations) :
              OnCycle(spec, Declarations[i].key) =>
                  Declarations[i].key \in Handles(Declarations[i].node)

C6_Witness ==
    /\ TypesEmitted
    /\ \E i, j \in 1..Len(Declarations) :
          /\ i # j
          /\ OnCycle(spec, Declarations[i].key) /\ OnCycle(spec, Declarations[j].key)
          /\ Declarations[i].key \in Handles(Declarations[i].node)
          /\ Declarations[j].key \in Handles(Declarations[j].node)

RECURSIVE SubNodes(_)
\* A schema node and the nodes written inside it.
SubNodes(node) ==
    IF Has(node, "ref") THEN <<node>>
    ELSE LET list(key) == IF Has(node, key) THEN node[key] ELSE <<>>
             props == list("properties")
             inner == list("allOf") \o list("oneOf") \o list("anyOf")
                      \o (IF Has(node, "items") THEN <<node.items>> ELSE <<>>)
                      \o [i \in 1..Len(props) |-> props[i].schema]
         IN <<node>> \o Flatten([i \in 1..Len(inner) |-> SubNodes(inner[i])])

\* The document as parsed, when it parses.
Parses == parseOpenApiYaml(doc).k = "Spec"
Root == parseOpenApiYaml(doc).spec

\* The references reachable from paths that point at nothing.
BrokenRefs(root) ==
    {r \in RefsFromPaths(root) : resolve(root, r) = Failure("BrokenReference", r)}

\* Nothing but a broken reference is fatal in the document: it has no allOf and
\* no reference into another file.
OnlyBrokenRefs(root) ==
    /\ \A r \in ReachableRefs(root) : resolve(root, r).k = "Failure" => r \in BrokenRefs(root)
    /\ \A i \in 1..Len(Section(root, "schemas")) :
          \A n \in Range(SubNodes(Section(root, "schemas")[i].schema)) : ~Has(n, "allOf")
    /\ \A i \in 1..Len(OperationSchemas(root)) :
          \A n \in Range(SubNodes(OperationSchemas(root)[i])) : ~Has(n, "allOf")

\* C7: when a reference reachable from paths points to an undeclared schema, no
\* run gets past type generation: no artifact is produced, nothing is written,
\* and the run fails with BrokenReference carrying that pointer.
C7_BrokenReferenceFatal ==
    (Parses /\ BrokenRefs(Root) # {}) =>
        /\ pc \in {"idle", "parse", "types", "failed"}
        /\ typesFile = NoFile /\ stubFiles = <<>> /\ allFiles = <<>>
        /\ written = {} /\ disk = {}
        /\ FinishedRuns("done") = {}
        /\ pc = "failed" =>
              /\ err.k = "Failure"
              /\ OnlyBrokenRefs(Root) =>
                    err.error = "BrokenReference" /\ err.detail \in BrokenRefs(Root)

C7_Witness ==
    /\ Parses /\ SchemaRef("Missing") \in BrokenRefs(Root) /\ OnlyBrokenRefs(Root)
    /\ pc = "failed" /\ err = Failure("BrokenReference", SchemaRef("Missing"))
    /\ runs = 1

\* The parsed document is empty or has no openapi field.
MalformedTop ==
    doc.readable /\ doc.wellFormed /\ (doc.data = <<>> \/ ~Has(doc.data[1], "openapi"))

\* C8: a document that is empty or has no openapi field is rejected by the
\* parser: the run fails with the parser's error and neither type generation,
\* stub generation nor a write is started.
C8_MalformedRejected ==
    MalformedTop =>
        /\ pc \in {"idle", "parse", "failed"}
        /\ steps = {} /\ spec = NoSpec
        /\ typesFile = NoFile /\ stubFiles = <<>> /\ allFiles = <<>>
        /\ next = 1 /\ written = {} /\ disk = {}
        /\ FinishedRuns("done") = {}
        /\ pc = "failed" =>
              err = Thrown(<<"Failed to parse OpenAPI YAML file",
                             "Invalid OpenAPI YAML file: Missing required fields.">>)

C8_Witness == MalformedTop /\ doc.data # <<>> /\ pc = "failed" /\ runs = 1

----------------------------------------------------------------------------
(* Properties of normalize *)

\* The members of the composition under keyword, normalized one by one.
NormalizedMembers(keyword) ==
    [i \in 1..Len(nIn.node[keyword]) |-> normalize(nIn.root, nIn.node[keyword][i], {}, 0)]

FieldsOfMember(t) == IF t.k = "Object" THEN Range(t.fields) ELSE {}

\* C9: allOf over members that are objects gives one object whose fields are
\* the union of the members' fields, each once, with the type the members give
\* it and required iff some member requires it; two members giving one field
\* different types fail with IncompatibleMerge, a member that is no object with
\* UnsupportedComposition, and a failure produces no type.
C9_AllOfMerge ==
    (nOut # NoSpec /\ Has(nIn.node, "allOf")) =>
        LET ms == NormalizedMembers("allOf")
            declared == UNION {FieldsOfMember(ms[i]) : i \in 1..Len(ms)}
            objects == \A i \in 1..Len(ms) : ms[i].k = "Object"
            clash == \E f, g \in declared : f.name = g.name /\ f.type # g.type
        IN (\A i \in 1..Len(ms) : ~IsFatal(ms[i])) =>
              /\ (objects /\ ~clash) =>
                    /\ nOut.k = "Object"
                    /\ {nOut.fields[i].name : i \in 1..Len(nOut.fields)}
                           = {f.name : f \in declared}
                    /\ \A i, j \in 1..Len(nOut.fields) :
                          nOut.fields[i].name = nOut.fields[j].name => i = j
                    /\ \A i \in 1..Len(nOut.fields) :
                          /\ nOut.fields[i].required
                                <=> \E f \in declared :
                                       f.name = nOut.fields[i].name /\ f.required
                          /\ \E f \in declared :
                                f.name = nOut.fields[i].name
                                /\ f.type = nOut.fields[i].type
              /\ (objects /\ clash) =>
                    nOut.k = "Failure" /\ nOut.error = "IncompatibleMerge"
              /\ (~objects /\ ~clash) =>
                    nOut.k = "Failure" /\ nOut.error = "UnsupportedComposition"
              /\ (~objects /\ clash) =>
                    /\ nOut.k = "Failure"
                    /\ nOut.error \in {"IncompatibleMerge", "UnsupportedComposition"}

C9_Witness ==
    /\ nOut # NoSpec /\ Has(nIn.node, "allOf") /\ nOut.k = "Object"
    /\ {nOut.fields[i].name : i \in 1..Len(nOut.fields)} = {"x", "y", "kind"}
    /\ \E i \in 1..Len(nOut.fields) :
          /\ nOut.fields[i].name = "x" /\ nOut.fields[i].required
          /\ \E m \in Range(NormalizedMembers("allOf")) :
                \E f \in FieldsOfMember(m) : f.name = "x" /\ ~f.required

\* C10: oneOf / anyOf gives a union of the normalized members that is marked
\* discriminated, with the field's name recorded, exactly when every member is
\* an object with one common field whose type is a single-valued enum, and is
\* untagged otherwise.
C10_UnionDiscrimination ==
    (nOut # NoSpec /\ (Has(nIn.node, "oneOf") \/ Has(nIn.node, "anyOf"))) =>
        LET vs == NormalizedMembers(IF Has(nIn.node, "oneOf") THEN "oneOf" ELSE "anyOf")
            names == UNION {{f.name : f \in FieldsOfMember(vs[i])} : i \in 1..Len(vs)}
            common == {n \in names :
                          \A i \in 1..Len(vs) :
                              /\ vs[i].k = "Object"
                              /\ \E f \in FieldsOfMember(vs[i]) :
                                    /\ f.name = n
                                    /\ f.type.k = "Enum"
                                    /\ Cardinality(Range(f.type.values)) = 1}
        IN (\A i \in 1..Len(vs) : ~IsFatal(vs[i])) =>
              /\ nOut.k = "Union"
              /\ nOut.variants = vs
              /\ nOut.discriminated <=> common # {}
              /\ nOut.discriminated =>
                    Len(nOut.discriminator) = 1 /\ nOut.discriminator[1] \in common
              /\ ~nOut.discriminated => nOut.discriminator = <<>>

C10_Witness ==
    /\ nOut # NoSpec /\ Has(nIn.node, "oneOf")
    /\ nOut.k = "Union" /\ nOut.discriminated /\ nOut.discriminator = <<"kind">>
    /\ Len(nOut.variants) = 2
    /\ FieldOf(nOut.variants[1], "kind")[1].type # FieldOf(nOut.variants[2], "kind")[1].type

\* The node has none of the keywords the rules 1 to 7 look for.
IsUnrecognized(node) ==
    /\ \A key \in {"ref", "allOf", "oneOf", "anyOf", "enum", "items", "properties"} :
          ~Has(node, key)
    /\ Has(node, "type") => node.type \notin PrimitiveKinds \cup {"array", "object"}

RECURSIVE NodesWithin(_)
\* A schema node and every node written inside it, additionalProperties included.
NodesWithin(node) ==
    LET list(key) == IF Has(node, key) THEN node[key] ELSE <<>>
        props == list("properties")
        extra == IF Has(node, "additionalProperties")
                    /\ node.additionalProperties \notin {[closed |-> TRUE], [open |-> TRUE]}
                 THEN <<node.additionalProperties>> ELSE <<>>
        inner == list("allOf") \o list("oneOf") \o list("anyOf") \o extra
                 \o (IF Has(node, "items") THEN <<node.items>> ELSE <<>>)
                 \o [i \in 1..Len(props) |-> props[i].schema]
    IN {node} \cup UNION {NodesWithin(inner[i]) : i \in 1..Len(inner)}

\* The nodes normalize(nIn) can come to: those of the schema and of every
\* declared schema of its document.
NodesOfInput ==
    NodesWithin(nIn.node)
    \cup UNION {NodesWithin(Section(nIn.root, "schemas")[i].schema) :
                   i \in 1..Len(Section(nIn.root, "schemas"))}

RECURSIVE IsCanonical(_, _)
\* t is a CanonicalTypeNode tree: each node is one of the seven variants with the
\* fields of that variant and no other (no $ref, no allOf, oneOf or anyOf, no
\* failure inside), and each ReferenceHandle names a declared schema.
IsCanonical(root, t) ==
    LET all(ts) == \A i \in 1..Len(ts) : IsCanonical(root, ts[i])
    IN CASE t.k = "Primitive" ->
                DOMAIN t = {"k", "kind", "format"} /\ t.kind \in PrimitiveKinds
         [] t.k = "Object" ->
                /\ DOMAIN t = {"k", "fields", "open"}
                /\ all([i \in 1..Len(t.fields) |-> t.fields[i].type])
                /\ Len(t.open) <= 1 /\ all(t.open)
         [] t.k = "Array" -> DOMAIN t = {"k", "element"} /\ IsCanonical(root, t.element)
         [] t.k = "Union" ->
                /\ DOMAIN t = {"k", "variants", "discriminated", "discriminator"}
                /\ all(t.variants)
         [] t.k = "Enum" -> DOMAIN t = {"k", "values"}
         [] t.k = "Ref" -> DOMAIN t = {"k", "to"} /\ resolve(root, t.to).k = "Resolved"
         [] t.k = "Unknown" -> DOMAIN t = {"k"}
         [] OTHER -> FALSE

----------------------------------------------------------------------------
(* Properties of the dispatchers *)

\* The pairs of the group chat that match the request: same method, same number
\* of segments, equal literal segments, a non-empty segment at each {param}.
MatchingPairs ==
    LET routes == GroupRoutes(DispatchRoot, "chat")
    IN {i \in 1..Len(routes) :
           /\ <<routes[i].method, request.method>>
                 \in {<<"get", "GET">>, <<"post", "POST">>, <<"delete", "DELETE">>,
                      <<"put", "PUT">>}
           /\ Len(routes[i].path) = Len(request.path)
           /\ \A j \in 1..Len(request.path) :
                 \/ routes[i].path[j] = request.path[j]
                       /\ routes[i].path[j] \notin {"{id}", "{thread_id}"}
                 \/ routes[i].path[j] \in {"{id}", "{thread_id}"}
                       /\ request.path[j] # ""}

\* C11: the group dispatcher runs an operation's placeholder body exactly when
\* some (method, path template) pair of the group matches the request, and it
\* is the body of a matching pair; when none matches it answers not-found.
C11_DispatcherMatching ==
    response # NoSpec =>
        LET routes == GroupRoutes(DispatchRoot, "chat")
        IN /\ MatchingPairs = {} <=> response = NotFound
           /\ MatchingPairs # {} =>
                 /\ response.status = 501
                 /\ \E i \in MatchingPairs : response.operation = routes[i].operationId

C11_Witness ==
    /\ response # NoSpec /\ response.status = 501
    /\ response.operation = "deleteChatCompletion"
    /\ request.path = <<"chat", "completions", "42">>

\* The names the aggregator forwards to: those some pathname "/name" reaches.
Forwardable ==
    {g \in Range(RoutePrefixes) \cup Range(availableRoutes) :
        routeRequest([method |-> "GET", pathname |-> "/" \o g]).k = "forward"}

\* What stands between the first slash of the pathname and the next one.
FirstSegment(pathname) ==
    LET after == SubSeq(pathname, 2, Len(pathname))
        i == IndexOf(after, "/")
    IN IF i = 0 THEN after ELSE SubSeq(after, 1, i - 1)

RECURSIVE SkipSlashes(_)
SkipSlashes(pathname) ==
    IF pathname # "" /\ Char(pathname, 1) = "/" THEN SkipSlashes(Tail(pathname))
    ELSE pathname

\* The first segment of the pathname that is not empty, "" when it has none.
FirstNonEmptySegment(pathname) == FirstSegment("/" \o SkipSlashes(pathname))

\* The not-found answer of the aggregator lists exactly the forwardable names.
ListsForwardable ==
    /\ response.k = "response" /\ response.status = 404
    /\ Range(response.availableRoutes) = Forwardable

\* C12 (as claimed): a request whose first path segment is a known group name
\* is forwarded to that group's dispatcher, whatever the rest and the method;
\* every other request gets the 404 that lists exactly the forwardable names.
C12_FirstSegmentAsClaimed ==
    response # NoSpec =>
        IF FirstSegment(request.pathname) \in Forwardable
        THEN response = [k |-> "forward", worker |-> FirstSegment(request.pathname)]
        ELSE ListsForwardable

\* C12 (amended): the aggregator decides by the first non-empty path segment:
\* empty segments in front, as in //chat/completions, are skipped.  A request
\* whose first non-empty segment is a known group name is forwarded to that
\* group's dispatcher, whatever the rest and the method; every other request
\* gets the 404 that lists exactly the forwardable names.
C12_AggregatorRouting ==
    response # NoSpec =>
        IF FirstNonEmptySegment(request.pathname) \in Forwardable
        THEN response = [k |-> "forward", worker |-> FirstNonEmptySegment(request.pathname)]
        ELSE ListsForwardable

C12_Witness ==
    /\ response # NoSpec /\ response.k = "forward" /\ response.worker = "chat"
    /\ request.pathname = "//chat/completions"

----------------------------------------------------------------------------
(* Properties of enhanceWithAI *)

KeyConfigured == config.apiKey \notin {"", "your-api-key-here"}

\* The call's AI request failed: fetch rejected, the status was not OK, or the
\* body could not be parsed as JSON.
CallFailed(call) ==
    \/ call.fetch \in {"rejected", "notOk"}
    \/ call.body # <<>> /\ call.body[1].k = "unparseable"

\* The AI response the call received carries content to return.
UsableContent(call) ==
    /\ call.fetch = "ok" /\ call.body # <<>> /\ call.body[1].k = "json"
    /\ call.body[1].data # <<>>
    /\ LET data == call.body[1].data[1]
       IN /\ "choices" \in DOMAIN data /\ Len(data.choices) >= 1
          /\ "message" \in DOMAIN data.choices[1]
          /\ "content" \in DOMAIN data.choices[1].message
          /\ data.choices[1].message.content # ""

\* The 501 "Not implemented" stub that names the operation.
IsPlaceholderOf(stub, operationId) ==
    /\ stub.k = "stub"
    /\ stub.todo = operationId /\ stub.function = operationId
    /\ stub.response.status = 501 /\ stub.response.operation = operationId

\* C13: no enhanceWithAI call ends rejected; a call whose AI request threw,
\* came back with a non-OK status or with a body that cannot be parsed has
\* resolved with the default placeholder stub.
C13_EnhanceNeverRejects ==
    \A o \in OperationIds :
        /\ calls[o].pc \in {"idle", "fetch", "json", "resolved"}
        /\ calls[o].pc = "resolved" <=> calls[o].result # <<>>
        /\ CallFailed(calls[o]) =>
              /\ calls[o].pc = "resolved"
              /\ IsPlaceholderOf(calls[o].result[1], o)

C13_Witness ==
    /\ calls["createChatCompletion"].fetch = "rejected"
    /\ calls["getChatCompletion"].fetch = "notOk"
    /\ calls["listModels"].body = <<[k |-> "unparseable"]>>
    /\ \A o \in OperationIds : calls[o].pc = "resolved"

\* C14: whatever the other calls do and in whatever order they end, a call has
\* resolved only on its own outcome and its result is the one that outcome
\* gives; and the artifacts the run produced and wrote stay as they were.
C14_PerOperationIndependence ==
    /\ \A o \in OperationIds :
          calls[o].pc = "resolved" =>
              /\ \/ ~KeyConfigured /\ calls[o].fetch = "none"
                 \/ KeyConfigured /\ calls[o].fetch \in {"rejected", "notOk"}
                 \/ KeyConfigured /\ calls[o].fetch = "ok" /\ calls[o].body # <<>>
              /\ IF UsableContent(calls[o])
                 THEN calls[o].result[1] =
                          [k |-> "ai",
                           content |-> calls[o].body[1].data[1].choices[1].message.content]
                 ELSE calls[o].result[1].k = "stub"
    /\ returned = <<[id |-> doc.id, outcome |-> "done",
                     files |-> ProducedFiles(DispatchRoot, config), err |-> NoError]>>
    /\ {e.content : e \in disk} = {f.content : f \in Range(returned[1].files)}

C14_Witness ==
    /\ calls["createChatCompletion"].pc = "fetch"
    /\ calls["getChatCompletion"].pc = "resolved"
    /\ calls["getChatCompletion"].fetch = "notOk"
    /\ calls["listModels"].pc = "resolved"
    /\ calls["listModels"].result[1].k = "ai"

\* C20 (as claimed): whenever enhanceWithAI has returned a placeholder instead
\* of AI-generated code, it is the 501 stub that names the requested operation.
C20_PlaceholderNamesOperation ==
    \A o \in OperationIds :
        (calls[o].pc = "resolved" /\ calls[o].result[1].k = "stub")
            => IsPlaceholderOf(calls[o].result[1], o)

----------------------------------------------------------------------------
(* Properties of the main worker *)

\* C15 (as claimed): the worker keeps nothing between invocations: a request
\* that is sent again, at the same time and in the same environment, and with
\* no group worker throwing, gets the same routing decision and the same
\* status as before.
C15_StatelessDispatch ==
    [][(/\ served # <<>> /\ served' # <<>>
        /\ served'[1].request = served[1].request
        /\ clock' = clock /\ workerEnv' = workerEnv
        /\ served[1].response.from # "catch" /\ served'[1].response.from # "catch")
       => /\ served'[1].response.status = served[1].response.status
          /\ served'[1].response.from = served[1].response.from]_vars

----------------------------------------------------------------------------
(* Properties of the naming *)

\* C17: no two distinct NamedTypes have the same identifier: two schema
\* declarations of different names, and an inline schema and whatever was named
\* before it, never share one.
C17_UniqueIdentifiers ==
    \A i, j \in 1..Len(identifiers) :
        identifiers[i].key # identifiers[j].key
            => identifiers[i].identifier # identifiers[j].identifier

----------------------------------------------------------------------------
(* Properties of the artifact paths *)

\* The relative path of an artifact as the string the writer appends to the
\* output directory.
RelativePath(file) == join(file.path)

----------------------------------------------------------------------------
(* Properties of the configuration *)

\* C19: GENERATE_CF_WORKER configures config.generateCloudflareWorker: the option
\* is true when the variable is unset or set to "true", and false when it is set
\* to anything else.
C19_GenerateCfWorkerConfigured ==
    config.generateCloudflareWorker =
        IF "GENERATE_CF_WORKER" \in DOMAIN env
        THEN env["GENERATE_CF_WORKER"] = "true"
        ELSE TRUE

----------------------------------------------------------------------------
(* Properties of the credential *)

\* A request to the AI endpoint has been sent for the operation: callAIAPI has
\* reached its fetch.
Fetched(operationId) == calls[operationId].fetch # "none"

\* C21: without a credential (config.apiKey empty or the placeholder)
\* enhanceWithAI returns the basic stub at once and the AI endpoint is never
\* called; and no step of generateFromYaml (parse, type generation, stub
\* generation, write), whatever the configuration, calls the AI endpoint.
C21_NoCallWithoutCredential ==
    /\ [](config.apiKey \in {"", "your-api-key-here"} =>
            \A o \in OperationIds :
                /\ ~Fetched(o)
                /\ calls[o].pc \in {"idle", "resolved"}
                /\ calls[o].pc = "resolved" =>
                      calls[o].result = <<generateBasicStub(o)>>)
    /\ [][(genVars' # genVars \/ outVars' # outVars) => calls' = calls]_vars

\* Without a credential a run has generated its files and enhanceWithAI has
\* returned the basic stub, no request sent.
C21_Witness ==
    /\ config.apiKey \in {"", "your-api-key-here"}
    /\ runs >= 1 /\ returned[1].outcome = "done" /\ disk # {}
    /\ calls["createChatCompletion"].pc = "resolved"
    /\ calls["createChatCompletion"].result = <<generateBasicStub("createChatCompletion")>>
    /\ ~Fetched("createChatCompletion")

----------------------------------------------------------------------------
(* Properties of the rate limit *)

\* The limit the worker is configured with: RATE_LIMIT_PER_MINUTE, sixty by
\* default.
ConfiguredLimit ==
    IF RateLimit(workerEnv) # <<>> THEN RateLimit(workerEnv)[1] ELSE 60

\* C22: for every client IP and every one-minute window checkRateLimit allows at
\* most RATE_LIMIT_PER_MINUTE (default 60) calls and denies every later call of
\* that window; no stored count exceeds the limit; a denied call leaves the
\* store as it is.
C22_RateLimitBound ==
    /\ \A t \in served.tallies :
          /\ t.allowed <= ConfiguredLimit
          /\ ~t.late /\ ~t.loud
          /\ t.denied > 0 => t.allowed = ConfiguredLimit
    /\ \A e \in rateLimitStore : e.count <= ConfiguredLimit

----------------------------------------------------------------------------
(* Properties of the request pipeline *)

\* The request carries a bearer token and the worker has a key configured.
Authorized(req) ==
    /\ req.authorization # <<>>
    /\ Len(req.authorization[1]) > Len("Bearer ")
    /\ SubSeq(req.authorization[1], 1, Len("Bearer ")) = "Bearer "
    /\ Has(workerEnv, "API_KEY") /\ workerEnv.API_KEY # ""

\* The count the store holds for the client of the request in the window of
\* the clock.
CountOf(store, req) ==
    LET ip == IF req.ip = <<>> THEN "unknown" ELSE req.ip[1]
        mine == {e \in store : e.key = <<ip, (clock \div windowMs) * windowMs>>}
    IN IF mine = {} THEN 0 ELSE (CHOOSE e \in mine : TRUE).count

\* C23: a request is forwarded to a group worker only after it passed
\* authentication and then the rate-limit check, which has counted it; OPTIONS
\* and /health requests are answered (204 / 200) with neither and reach no group
\* worker; a request rejected with 401 is counted by no rate-limit counter (and
\* one rejected with 429 had passed authentication); an exception raised within
\* the try block gives a 500 response.
C23_PipelineOrder ==
    [][(clock' = clock /\ served' # <<>>) =>
          LET req == served'[1].request
              res == served'[1].response
              counted == CountOf(rateLimitStore', req) = CountOf(rateLimitStore, req) + 1
          IN /\ res.from \in Range(RoutePrefixes) =>
                   /\ Authorized(req) /\ counted
                   /\ req.method # "OPTIONS" /\ req.pathname \notin {"/health", "/health/"}
             /\ req.method = "OPTIONS" =>
                   /\ rateLimitStore' = rateLimitStore
                   /\ (res.from = "handleCors" /\ res.status = 204) \/ res.from = "catch"
             /\ (req.method # "OPTIONS" /\ req.pathname \in {"/health", "/health/"}) =>
                   /\ rateLimitStore' = rateLimitStore
                   /\ (res.from = "handleHealthCheck" /\ res.status = 200) \/ res.from = "catch"
             /\ res.status = 401 => ~Authorized(req) /\ rateLimitStore' = rateLimitStore
             /\ res.status = 429 => Authorized(req) /\ rateLimitStore' = rateLimitStore
             /\ res.from = "routeRequest" => Authorized(req) /\ counted
             /\ res.from = "catch" => res.status = 500
             /\ res.status \in {204, 200, 401, 429, 404, 501, 500}]_vars

\* An authorized request has been counted and forwarded to the chat worker,
\* whose answer came back.
C23_Witness ==
    /\ served # <<>>
    /\ served[1].response.from = "chat" /\ served[1].response.status = 501
    /\ Authorized(served[1].request)
    /\ CountOf(rateLimitStore, served[1].request) = 1

----------------------------------------------------------------------------
(* Properties of the cleanup *)

\* The keys the store holds an entry for.
KeysOf(store) == {e.key : e \in store}

\* C24: with time that never goes back, a call of checkRateLimit removes only
\* entries of windows that ended more than one window ago, never the counter
\* of the current window, and lowers no count; and after each allowed call the
\* store holds no entry whose resetTime is older than now minus one window.
C24_CleanupKeepsTheLimit ==
    /\ [](\A e \in rateLimitStore : e.resetTime = e.key[2] + windowMs)
    /\ [][clock' >= clock]_vars
    /\ [][clock' = clock =>
            /\ \A e \in rateLimitStore :
                  IF e.key \in KeysOf(rateLimitStore')
                  THEN \A kept \in rateLimitStore' : kept.key = e.key =>
                          kept.count >= e.count /\ kept.resetTime = e.resetTime
                  ELSE /\ e.key[2] + windowMs < clock - windowMs
                       /\ e.key[2] # (clock \div windowMs) * windowMs
            /\ rateLimitStore' # rateLimitStore =>
                  \A kept \in rateLimitStore' : kept.resetTime >= clock - windowMs]_vars

\* Two windows after the first, the counter of the first window is gone while
\* that of the window before the current one, which ended less than a window
\* ago, is kept beside the current one.
C24_Witness ==
    /\ clock = 5 * (windowMs \div 2)
    /\ {e.key : e \in rateLimitStore} =
          {<<"203.0.113.7", windowMs>>, <<"203.0.113.7", 2 * windowMs>>}
    /\ \A e \in rateLimitStore : e.count = 1


====
